---- MODULE Spec2Model ----
(***************************************************************************)
(* ReactorJS core: the virtual-tree reconciler (core/renderer.js), the      *)
(* descriptor constructor (core/vdom.js) and the component instance /       *)
(* scheduler (core/component.js, core/hooks.js), as state machines.         *)
(*                                                                         *)
(* SpecDOM  : render(vnode, container) applied repeatedly to one container. *)
(* SpecComp : Component / FunctionalComponent instances, their update       *)
(*            requests and the microtask queue that flushes them.           *)
(***************************************************************************)
EXTENDS Integers, Sequences, FiniteSets, TLC

VARIABLES
  \* ---- renderer (SpecDOM) ----
  container,      \* the host container node (nested host tree)
  curVNode,       \* container._currentVNode (NoVNode when unset)
  nextId,         \* identity of the next host node document.create* returns
  renders,        \* number of render() calls made
  lastArg,        \* the vnode handed to the last render() call
  lastOps,        \* host-adapter calls issued by the last render() call
  lastErr,        \* TRUE when the last render() call threw
  prevContainer,  \* the host container as it was before the last render()
  prevVNode,      \* container._currentVNode as it was before the last render()
  \* ---- component instances and scheduler (SpecComp) ----
  comps,          \* the Component instances: their fields
  microtasks,     \* the microtask queue: callbacks of Promise.resolve().then
  requests,       \* number of update requests made
  obs,            \* per instance: what its requests and flushes were seen to do
  fc,             \* the FunctionalComponent instance: its fields and hook slots
  fobs,           \* what the functional instance's renders and effects were seen to do
  ctx,            \* the contexts created, the Providers around the component
                  \* being rendered, and what the last useContext call did
  el,             \* a caller of createElement: its props object, its children
                  \* and the descriptors it was returned
  store,          \* a store made by createStore: state, listeners, calls seen
  rx,             \* core/reactivity.js: reactive objects, their dependents,
                  \* currentEffect
  hk              \* core/hooks.js: currentComponent and currentHookIndex, and
                  \* the hook-based instances that render through them

domVars == <<container, curVNode, nextId, renders, lastArg, lastOps, lastErr,
             prevContainer, prevVNode>>

compVars == <<comps, microtasks, requests, obs>>

hookVars == <<fc, fobs, ctx>>

libVars == <<el, store, rx, hk>>

vars == <<domVars, compVars, hookVars, libVars>>

(***************************************************************************)
(* Bounds                                                                  *)
(***************************************************************************)
MaxKids == 3        \* longest sibling list drawn as input
MaxRenders == 2     \* render() calls per behaviour
MaxRequests == 3    \* update requests per behaviour
MaxDepth == 2       \* Providers nested around a component
MaxNest == 2        \* arrays nested inside one another among children
MaxCalls == 2       \* createElement calls with one props object
MaxDispatches == 3  \* dispatch calls per behaviour
MaxWrites == 3      \* property writes on the reactive object per behaviour
MaxDeps == 2        \* longest dependency sequence handed to a hook
MaxDiffs == 3       \* render() calls per behaviour on the trees with props

(***************************************************************************)
(* JavaScript values that appear as prop values                            *)
(***************************************************************************)
StyleKeys == {"color", "fontWeight"}
NoStyle == [k \in StyleKeys |-> ""]

\* k: typeof tag; r: object identity (functions, objects); s: string payload;
\* st: own enumerable keys of a style object ("" = key not present)
UndefVal == [k |-> "undefined", r |-> 0, s |-> "", st |-> NoStyle]
StrVal(s) == [k |-> "string", r |-> 0, s |-> s, st |-> NoStyle]
FnVal(r) == [k |-> "function", r |-> r, s |-> "", st |-> NoStyle]
ObjVal(r, st) == [k |-> "object", r |-> r, s |-> "", st |-> st]

NoProps == [n \in {} |-> UndefVal]

\* props[name], undefined when the bag has no such property
PropGet(props, name) == IF name \in DOMAIN props THEN props[name] ELSE UndefVal

\* Object.keys(props): one fixed enumeration order of the names in use
PropOrder == <<"nodeValue", "id", "className", "style", "onClick", "onInput">>

StartsWithOn(name) == name \in {"onClick", "onInput"}

\* name.toLowerCase().substring(2)
EventType(name) == IF name = "onClick" THEN "click"
                   ELSE IF name = "onInput" THEN "input" ELSE name

(***************************************************************************)
(* Descriptors (core/vdom.js)                                              *)
(***************************************************************************)
Digits == <<"0", "1", "2", "3", "4", "5", "6", "7", "8", "9">>
ToStr(n) == Digits[n + 1]

NoKey == [t |-> "null", v |-> ""]
NumKey(n) == [t |-> "number", v |-> ToStr(n)]
StrKey(s) == [t |-> "string", v |-> s]

\* child.key != null
HasKey(vnode) == vnode.key.t # "null"

\* the property name a key becomes when it indexes a plain object
PropKey(key) == key.v

VNode(type, props, key, children) ==
  [type |-> type, props |-> props, key |-> key, children |-> children]

\* an absent descriptor (undefined / null)
NoVNode == [type |-> "", props |-> NoProps, key |-> NoKey, children |-> <<>>]
Absent(vnode) == vnode.type = ""

createTextElement(text) ==
  VNode("TEXT_ELEMENT", [n \in {"nodeValue"} |-> StrVal(text)], NoKey, <<>>)

\* children[i] with a 0-based index; undefined outside the array
VAt(children, i) ==
  IF i >= 0 /\ i < Len(children) THEN children[i + 1] ELSE NoVNode

(***************************************************************************)
(* Host nodes: the DOM operations the renderer calls                       *)
(***************************************************************************)
AttrNames == {"id", "class", "className", "style", "onClick", "onInput"}
Unset == "<unset>"
NoAttrs == [a \in AttrNames |-> Unset]

Undef == [id |-> 0, tag |-> "", text |-> "", attrs |-> NoAttrs,
          listeners |-> {}, style |-> NoStyle, kids |-> <<>>]
IsUndef(node) == node.id = 0

\* a Text node: it has no style, no setAttribute and takes no children
IsText(node) == node.tag = "#text"

NewElement(id, tag) ==
  [id |-> id, tag |-> tag, text |-> "", attrs |-> NoAttrs,
   listeners |-> {}, style |-> NoStyle, kids |-> <<>>]

NewText(id, text) ==
  [id |-> id, tag |-> "#text", text |-> text, attrs |-> NoAttrs,
   listeners |-> {}, style |-> NoStyle, kids |-> <<>>]

Op(op, id, arg) == [op |-> op, id |-> id, arg |-> arg]

\* parent.childNodes[i], 0-based; undefined outside the list
ChildAt(parent, i) ==
  IF i >= 0 /\ i < Len(parent.kids) THEN parent.kids[i + 1] ELSE Undef

\* Array.from(parent.childNodes).indexOf(node): 0-based, -1 when absent
IndexOfNode(parent, node) ==
  IF \E i \in 1..Len(parent.kids) : parent.kids[i].id = node.id
  THEN (CHOOSE i \in 1..Len(parent.kids) : parent.kids[i].id = node.id) - 1
  ELSE -1

Without(kids, id) == SelectSeq(kids, LAMBDA n : n.id # id)

InsertAt(kids, pos, node) ==
  SubSeq(kids, 1, pos - 1) \o <<node>> \o SubSeq(kids, pos, Len(kids))

\* parent.appendChild(node)
AppendChild(parent, node) ==
  [parent EXCEPT !.kids = Append(Without(parent.kids, node.id), node)]

\* parent.insertBefore(node, ref); ref undefined/null appends.  ref = node
\* keeps the node where it is (the reference becomes its next sibling).
InsertBefore(parent, node, ref) ==
  IF IsUndef(ref) THEN AppendChild(parent, node)
  ELSE IF ref.id = node.id THEN parent
  ELSE LET rest == Without(parent.kids, node.id)
           pos == CHOOSE i \in 1..Len(rest) : rest[i].id = ref.id
       IN [parent EXCEPT !.kids = InsertAt(rest, pos, node)]

\* parent.removeChild(node)
RemoveChild(parent, node) ==
  [parent EXCEPT !.kids = Without(parent.kids, node.id)]

\* parent.replaceChild(new, old)
ReplaceChild(parent, new, old) ==
  [parent EXCEPT !.kids =
     [i \in 1..Len(parent.kids) |->
        IF parent.kids[i].id = old.id THEN new ELSE parent.kids[i]]]

\* the child at 0-based index i replaced by its updated value
PutChild(parent, i, node) ==
  IF IsUndef(parent) \/ IsUndef(node) \/ i < 0 \/ i >= Len(parent.kids)
  THEN parent
  ELSE [parent EXCEPT !.kids[i + 1] = node]

(***************************************************************************)
(* core/renderer.js                                                        *)
(***************************************************************************)
\* The renderer's working state while one call runs:
\*   p   the host node the call mutates,   nid  the next fresh node identity,
\*   ops the host-adapter calls so far,    err  TRUE once a TypeError was thrown
RState(p, nid, ops, err) == [p |-> p, nid |-> nid, ops |-> ops, err |-> err]
Throw(S) == [S EXCEPT !.err = TRUE]

StyleOrder == <<"color", "fontWeight">>

\* lines 36-41: detach listeners of handlers that are gone or changed
RECURSIVE RemoveListeners(_, _, _, _)
RemoveListeners(S, prevProps, nextProps, i) ==
  IF i > Len(PropOrder) \/ S.err THEN S
  ELSE LET name == PropOrder[i] IN
    IF name \in DOMAIN prevProps /\ StartsWithOn(name)
       /\ (name \notin DOMAIN nextProps
           \/ PropGet(prevProps, name) # PropGet(nextProps, name))
    THEN IF IsUndef(S.p) THEN Throw(S)
         ELSE RemoveListeners(
                [S EXCEPT !.p.listeners =
                            @ \ {[type |-> EventType(name),
                                  fn |-> prevProps[name].r]},
                          !.ops = Append(@, Op("removeEventListener", S.p.id,
                                               EventType(name)))],
                prevProps, nextProps, i + 1)
    ELSE RemoveListeners(S, prevProps, nextProps, i + 1)

\* dom[name] = value, as the host reflects it
SetProperty(dom, name, value) ==
  IF name = "className" THEN [dom EXCEPT !.attrs["class"] = value]
  ELSE IF name = "style"
       THEN [dom EXCEPT !.attrs["style"] = value,
                        !.style = IF value = "" THEN NoStyle ELSE @]
       ELSE [dom EXCEPT !.attrs[name] = value]

\* lines 44-48: clear the properties that are gone
RECURSIVE RemoveProps(_, _, _, _)
RemoveProps(S, prevProps, nextProps, i) ==
  IF i > Len(PropOrder) \/ S.err THEN S
  ELSE LET name == PropOrder[i] IN
    IF name \in DOMAIN prevProps /\ name \notin DOMAIN nextProps
       /\ name # "children"
    THEN IF IsUndef(S.p) THEN Throw(S)
         ELSE RemoveProps(
                [S EXCEPT !.p = SetProperty(S.p, name, ""),
                          !.ops = Append(@, Op("setProperty", S.p.id, name))],
                prevProps, nextProps, i + 1)
    ELSE RemoveProps(S, prevProps, nextProps, i + 1)

\* Object.assign that leaves alone the style keys the host already has
RECURSIVE AssignStyle_KeepsSetKeys(_, _, _)
AssignStyle_KeepsSetKeys(S, st, j) ==
  IF j > Len(StyleOrder) THEN S
  ELSE LET key == StyleOrder[j] IN
    IF st[key] # "" /\ S.p.style[key] = ""
    THEN AssignStyle_KeepsSetKeys(
           [S EXCEPT !.p.style[key] = st[key],
                     !.ops = Append(@, Op("setStyle", S.p.id, key))],
           st, j + 1)
    ELSE AssignStyle_KeepsSetKeys(S, st, j + 1)

\* Object.assign(dom.style, styleObject): one write per own key
RECURSIVE AssignStyle(_, _, _)
AssignStyle(S, st, j) ==
  IF j > Len(StyleOrder) THEN S
  ELSE LET key == StyleOrder[j] IN
    IF st[key] # ""
    THEN AssignStyle([S EXCEPT !.p.style[key] = st[key],
                               !.ops = Append(@, Op("setStyle", S.p.id, key))],
                     st, j + 1)
    ELSE AssignStyle(S, st, j + 1)

\* lines 51-68: set the new or changed properties
RECURSIVE SetProps(_, _, _, _)
SetProps(S, prevProps, nextProps, i) ==
  IF i > Len(PropOrder) \/ S.err THEN S
  ELSE LET name == PropOrder[i]
           v == PropGet(nextProps, name) IN
    IF name \in DOMAIN nextProps /\ name # "children" /\ name # "key"
       /\ PropGet(prevProps, name) # v
    THEN IF StartsWithOn(name) /\ v.k = "function"
         THEN IF IsUndef(S.p) THEN Throw(S)
              ELSE SetProps(
                     [S EXCEPT !.p.listeners =
                                 @ \cup {[type |-> EventType(name), fn |-> v.r]},
                               !.ops = Append(@, Op("addEventListener", S.p.id,
                                                    EventType(name)))],
                     prevProps, nextProps, i + 1)
         ELSE IF name = "style" /\ v.k = "object"
         THEN IF IsUndef(S.p) \/ IsText(S.p) THEN Throw(S)
              ELSE SetProps(AssignStyle(S, v.st, 1), prevProps, nextProps, i + 1)
         ELSE IF name = "className"
         THEN IF IsUndef(S.p) \/ IsText(S.p) THEN Throw(S)
              ELSE SetProps(
                     [S EXCEPT !.p.attrs["class"] = v.s,
                               !.ops = Append(@, Op("setAttribute", S.p.id,
                                                    "class"))],
                     prevProps, nextProps, i + 1)
         ELSE IF v.k # "object" /\ v.k # "function"
         THEN IF IsUndef(S.p) THEN Throw(S)
              ELSE SetProps(
                     [S EXCEPT !.p = SetProperty(S.p, name, v.s),
                               !.ops = Append(@, Op("setProperty", S.p.id, name))],
                     prevProps, nextProps, i + 1)
         ELSE SetProps(S, prevProps, nextProps, i + 1)
    ELSE SetProps(S, prevProps, nextProps, i + 1)

\* updateDOMProperties with the "changed" test of line 52 lost: every prop of
\* the new bag is written again
updateDOMProperties_NoChangeTest(S, prevProps, nextProps) ==
  SetProps(RemoveProps(RemoveListeners(S, prevProps, nextProps, 1),
                       prevProps, nextProps, 1),
           NoProps, nextProps, 1)

\* updateDOMProperties(dom, prevProps, nextProps); S.p is dom
updateDOMProperties(S, prevProps, nextProps) ==
  SetProps(RemoveProps(RemoveListeners(S, prevProps, nextProps, 1),
                       prevProps, nextProps, 1),
           prevProps, nextProps, 1)

\* createDOMElement(vnode): S.p becomes the created node.  S.p on entry is
\* ignored; nid, ops and err are threaded through.
RECURSIVE createDOMElement(_, _), AppendCreated(_, _, _)
createDOMElement(S, vnode) ==
  IF S.err THEN S
  ELSE IF vnode.type = "TEXT_ELEMENT"
  THEN [S EXCEPT !.p = NewText(S.nid, vnode.props["nodeValue"].s),
                 !.nid = S.nid + 1,
                 !.ops = Append(@, Op("createTextNode", S.nid, ""))]
  ELSE LET made == [S EXCEPT !.p = NewElement(S.nid, vnode.type),
                             !.nid = S.nid + 1,
                             !.ops = Append(@, Op("createElement", S.nid,
                                                  vnode.type))]
       IN AppendCreated(updateDOMProperties(made, NoProps, vnode.props),
                        vnode.children, 1)

\* lines 23-26: children.forEach(child => dom.appendChild(createDOMElement(child)))
AppendCreated(S, children, i) ==
  IF i > Len(children) \/ S.err THEN S
  ELSE LET c == createDOMElement(S, children[i])
       IN AppendCreated(
            [c EXCEPT !.p = AppendChild(S.p, c.p),
                      !.ops = Append(@, Op("appendChild", S.p.id, ""))],
            children, i + 1)

\* the 0-based index of the last child whose key names property k
\* (oldKeyedChildren[child.key] = {vnode, index}: a later child overwrites)
OldIndex(children, k) ==
  (CHOOSE i \in 1..Len(children) :
     /\ HasKey(children[i]) /\ PropKey(children[i].key) = k
     /\ \A j \in (i + 1)..Len(children) :
          ~(HasKey(children[j]) /\ PropKey(children[j].key) = k)) - 1

KeyNames(children) ==
  {PropKey(children[i].key) : i \in {j \in 1..Len(children) : HasKey(children[j])}}

\* key names in order of first insertion
RECURSIVE InsertionOrder(_, _, _)
InsertionOrder(children, i, acc) ==
  IF i > Len(children) THEN acc
  ELSE IF HasKey(children[i])
          /\ \A j \in 1..Len(acc) : acc[j] # PropKey(children[i].key)
       THEN InsertionOrder(children, i + 1, Append(acc, PropKey(children[i].key)))
       ELSE InsertionOrder(children, i + 1, acc)

IsIndexName(k) == \E d \in 1..Len(Digits) : Digits[d] = k

\* Object.keys(oldKeyedChildren): integer-like names ascending, then the
\* other names in insertion order
ObjectKeys(children) ==
  SelectSeq(Digits, LAMBDA d : d \in KeyNames(children))
  \o SelectSeq(InsertionOrder(children, 1, <<>>), LAMBDA k : ~IsIndexName(k))

SomeKeyed(children) == \E i \in 1..Len(children) : HasKey(children[i])

RECURSIVE updateDOM(_, _, _, _), PositionalLoop(_, _, _, _, _),
          reconcileChildren(_, _, _), ProcessNew(_, _, _, _),
          RemoveStale(_, _, _, _)

\* updateDOM(parentDOM, oldVNode, newVNode, index); S.p is parentDOM
updateDOM(S, oldVNode, newVNode, index) ==
  IF S.err THEN S
  ELSE IF Absent(oldVNode) /\ ~Absent(newVNode)
  THEN \* line 77
       IF IsUndef(S.p) THEN Throw(S)
       ELSE LET c == createDOMElement(S, newVNode) IN
            IF c.err \/ IsText(S.p) THEN [c EXCEPT !.p = S.p, !.err = TRUE]
            ELSE [c EXCEPT !.p = AppendChild(S.p, c.p),
                           !.ops = Append(@, Op("appendChild", S.p.id, ""))]
  ELSE IF ~Absent(oldVNode) /\ Absent(newVNode)
  THEN \* line 80
       IF IsUndef(S.p) \/ IsUndef(ChildAt(S.p, index)) THEN Throw(S)
       ELSE [S EXCEPT !.p = RemoveChild(S.p, ChildAt(S.p, index)),
                      !.ops = Append(@, Op("removeChild",
                                           ChildAt(S.p, index).id, ""))]
  ELSE IF ~Absent(oldVNode) /\ ~Absent(newVNode)
          /\ oldVNode.type # newVNode.type
  THEN \* line 83
       IF IsUndef(S.p) THEN Throw(S)
       ELSE LET c == createDOMElement(S, newVNode) IN
            IF c.err \/ IsUndef(ChildAt(S.p, index))
            THEN [c EXCEPT !.p = S.p, !.err = TRUE]
            ELSE [c EXCEPT !.p = ReplaceChild(S.p, c.p, ChildAt(S.p, index)),
                           !.ops = Append(@, Op("replaceChild",
                                                ChildAt(S.p, index).id, ""))]
  ELSE IF ~Absent(oldVNode) /\ ~Absent(newVNode)
  THEN IF oldVNode.type = "TEXT_ELEMENT"
       THEN \* lines 87-89
            IF oldVNode.props["nodeValue"] # newVNode.props["nodeValue"]
            THEN IF IsUndef(S.p) \/ IsUndef(ChildAt(S.p, index)) THEN Throw(S)
                 ELSE LET dom == ChildAt(S.p, index)
                          written ==
                            IF IsText(dom)
                            THEN [dom EXCEPT !.text =
                                    newVNode.props["nodeValue"].s]
                            ELSE dom   \* nodeValue of an Element is not settable
                      IN [S EXCEPT !.p = PutChild(S.p, index, written),
                                   !.ops = Append(@, Op("setNodeValue", dom.id, ""))]
            ELSE S
       ELSE \* lines 92-116
            IF IsUndef(S.p) THEN Throw(S)
            ELSE LET dom == ChildAt(S.p, index)
                     propsDone ==
                       updateDOMProperties([S EXCEPT !.p = dom],
                                           oldVNode.props, newVNode.props)
                     oldChildren == oldVNode.children
                     newChildren == newVNode.children
                     kidsDone ==
                       IF SomeKeyed(oldChildren) /\ SomeKeyed(newChildren)
                       THEN reconcileChildren(propsDone, oldChildren, newChildren)
                       ELSE PositionalLoop(propsDone, oldChildren, newChildren, 0,
                              IF Len(oldChildren) > Len(newChildren)
                              THEN Len(oldChildren) ELSE Len(newChildren))
                 IN [kidsDone EXCEPT !.p = PutChild(S.p, index, kidsDone.p)]
  ELSE S

\* lines 107-115: for (let i = 0; i < maxLength; i++) updateDOM(dom, old[i], new[i], i)
PositionalLoop(S, oldChildren, newChildren, i, maxLength) ==
  IF i >= maxLength \/ S.err THEN S
  ELSE PositionalLoop(
         updateDOM(S, VAt(oldChildren, i), VAt(newChildren, i), i),
         oldChildren, newChildren, i + 1, maxLength)

\* lines 139-176: L = [s: renderer state, last: lastIndex, seen: names put
\* into newKeyedChildren]
ProcessNew(L, oldChildren, newChildren, newIndex) ==
  IF newIndex >= Len(newChildren) \/ L.s.err THEN L
  ELSE LET newChild == newChildren[newIndex + 1] IN
    IF ~HasKey(newChild)
    THEN ProcessNew(
           [L EXCEPT !.s = updateDOM(L.s, VAt(oldChildren, newIndex),
                                     newChild, newIndex)],
           oldChildren, newChildren, newIndex + 1)
    ELSE LET k == PropKey(newChild.key)
             seen == L.seen \cup {k} IN
      IF k \in KeyNames(oldChildren)
      THEN LET oi == OldIndex(oldChildren, k)
               u == updateDOM(L.s, oldChildren[oi + 1], newChild, oi) IN
           IF u.err THEN [L EXCEPT !.s = u, !.seen = seen]
           ELSE IF oi < L.last
           THEN \* lines 158-161
                IF IsUndef(u.p) \/ IsText(u.p) \/ IsUndef(ChildAt(u.p, oi))
                THEN [L EXCEPT !.s = Throw(u), !.seen = seen]
                ELSE ProcessNew(
                       [L EXCEPT
                          !.s = [u EXCEPT
                                   !.p = InsertBefore(u.p, ChildAt(u.p, oi),
                                                      ChildAt(u.p, L.last)),
                                   !.ops = Append(@, Op("insertBefore",
                                                        ChildAt(u.p, oi).id, ""))],
                          !.seen = seen],
                       oldChildren, newChildren, newIndex + 1)
           ELSE ProcessNew([L EXCEPT !.s = u, !.last = oi, !.seen = seen],
                           oldChildren, newChildren, newIndex + 1)
      ELSE \* lines 167-174
           LET c == createDOMElement(L.s, newChild) IN
           IF c.err \/ IsUndef(L.s.p) \/ IsText(L.s.p)
           THEN [L EXCEPT !.s = [c EXCEPT !.p = L.s.p, !.err = TRUE],
                          !.seen = seen]
           ELSE ProcessNew(
                  [L EXCEPT
                     !.s = [c EXCEPT
                              !.p = IF newIndex >= Len(L.s.p.kids)
                                    THEN AppendChild(L.s.p, c.p)
                                    ELSE InsertBefore(L.s.p, c.p,
                                                      ChildAt(L.s.p, newIndex)),
                              !.ops = Append(@,
                                        IF newIndex >= Len(L.s.p.kids)
                                        THEN Op("appendChild", L.s.p.id, "")
                                        ELSE Op("insertBefore", c.p.id, ""))],
                     !.seen = seen],
                  oldChildren, newChildren, newIndex + 1)

\* lines 179-184: remove the old keyed children whose key is not among the new
RemoveStale(S, oldChildren, seen, j) ==
  IF j > Len(ObjectKeys(oldChildren)) \/ S.err THEN S
  ELSE LET key == ObjectKeys(oldChildren)[j] IN
    IF key \notin seen
    THEN LET index == OldIndex(oldChildren, key) IN
         IF IsUndef(S.p) \/ IsUndef(ChildAt(S.p, index)) THEN Throw(S)
         ELSE RemoveStale(
                [S EXCEPT !.p = RemoveChild(S.p, ChildAt(S.p, index)),
                          !.ops = Append(@, Op("removeChild",
                                               ChildAt(S.p, index).id, ""))],
                oldChildren, seen, j + 1)
    ELSE RemoveStale(S, oldChildren, seen, j + 1)

\* reconcileChildren(parentDOM, oldChildren, newChildren); S.p is parentDOM
reconcileChildren(S, oldChildren, newChildren) ==
  LET L == ProcessNew([s |-> S, last |-> 0, seen |-> {}],
                      oldChildren, newChildren, 0)
  IN RemoveStale(L.s, oldChildren, L.seen, 1)

(***************************************************************************)
(* Inputs of render(): the descriptor trees drawn by SpecDOM               *)
(***************************************************************************)
Keys == {1, 2, 3}

\* <li key={k}>k</li>
KeyedItem(k) == VNode("li", NoProps, NumKey(k), <<createTextElement(ToStr(k))>>)

Injective(f) == \A i, j \in DOMAIN f : f[i] = f[j] => i = j

\* sibling lists whose children all carry unique non-null keys
KeyedLists ==
  UNION {{[i \in 1..n |-> KeyedItem(f[i])] :
            f \in {g \in [1..n -> Keys] : Injective(g)}} : n \in 0..MaxKids}

\* sibling lists without keys: text nodes and elements
PlainItems == {createTextElement("a"), VNode("p", NoProps, NoKey, <<>>)}
PlainLists == UNION {[1..n -> PlainItems] : n \in 0..MaxKids}

Handler1 == FnVal(1)
Handler2 == FnVal(2)
Red == ObjVal(3, [NoStyle EXCEPT !["color"] = "red"])
BlueBold == ObjVal(4, [k \in StyleKeys |-> IF k = "color" THEN "blue" ELSE "bold"])

PropBags ==
  { [n \in {"className"} |-> StrVal("a")],
    [n \in {"className", "onClick"} |->
       IF n = "className" THEN StrVal("b") ELSE Handler1],
    [n \in {"onClick", "style"} |-> IF n = "onClick" THEN Handler2 ELSE Red],
    [n \in {"id", "style"} |-> IF n = "id" THEN StrVal("x") ELSE BlueBold],
    [n \in {"id", "style"} |-> IF n = "id" THEN StrVal("x") ELSE Red] }

\* <p key={k}/>: the element of another type under the same key
KeyedP(k) == VNode("p", NoProps, NumKey(k), <<>>)

\* keyed sibling lists in which a key changes its element type
TypeChangeLists ==
  { <<KeyedP(1)>>, <<KeyedP(1), KeyedItem(2)>>, <<KeyedItem(3), KeyedP(2)>> }

\* <li key="s">s</li>
StrKeyedItem(s) == VNode("li", NoProps, StrKey(s), <<createTextElement(s)>>)

\* sibling lists with a string key, and with one key given twice
OddKeyLists == { <<StrKeyedItem("1")>>, <<KeyedItem(1), KeyedItem(1)>> }

Trees ==
  {VNode("ul", NoProps, NoKey, ch) :
     ch \in KeyedLists \cup PlainLists \cup TypeChangeLists \cup OddKeyLists}
  \cup {VNode("ul", b, NoKey, <<createTextElement("b")>>) : b \in PropBags}
  \cup {VNode("div", NoProps, NoKey, <<>>),
        VNode("div", NoProps, NoKey, <<createTextElement("a")>>)}

(***************************************************************************)
(* SpecDOM: render(vnode, container)                                       *)
(***************************************************************************)
\* the host container handed to render() and mount(): an empty element
EmptyContainer == NewElement(1, "root")

InitDOM ==
  /\ container = EmptyContainer
  /\ curVNode = NoVNode
  /\ nextId = EmptyContainer.id + 1
  /\ renders = 0
  /\ lastArg = NoVNode
  /\ lastOps = <<>>
  /\ lastErr = FALSE
  /\ prevContainer = EmptyContainer
  /\ prevVNode = NoVNode
  /\ comps = <<>>
  /\ microtasks = <<>>
  /\ requests = 0
  /\ obs = <<>>
  /\ fc = <<>>
  /\ fobs = <<>>
  /\ ctx = <<>>
  /\ el = <<>>
  /\ store = <<>>
  /\ rx = <<>>
  /\ hk = <<>>

\* lines 190-202: the renderer state when render(vnode, container) returns
\* or throws
RenderResult(host, current, vnode, nid) ==
  IF ~Absent(current)
  THEN updateDOM(RState(host, nid, <<>>, FALSE), current, vnode, 0)
  ELSE LET cleared == [host EXCEPT !.kids = <<>>]
           c == createDOMElement(
                  RState(cleared, nid, <<Op("innerHTML", host.id, "")>>, FALSE),
                  vnode)
       IN [c EXCEPT !.p = AppendChild(cleared, c.p),
                    !.ops = Append(@, Op("appendChild", host.id, ""))]

Rendered(vnode) ==
  /\ \E r \in {RenderResult(container, curVNode, vnode, nextId)} :
       /\ container' = r.p
       /\ nextId' = r.nid
       /\ lastOps' = r.ops
       /\ lastErr' = r.err
       \* line 201 is not reached when the diff threw
       /\ curVNode' = IF r.err THEN curVNode ELSE vnode
  /\ renders' = renders + 1
  /\ lastArg' = vnode
  /\ prevContainer' = container
  /\ prevVNode' = curVNode
  /\ UNCHANGED <<compVars, hookVars, libVars>>

Render(vnode) == renders < MaxRenders /\ Rendered(vnode)

NextDOM == \E vnode \in Trees : Render(vnode)

SpecDOM == InitDOM /\ [][NextDOM]_vars

\* longer sequences of render() calls on one container, over the trees whose
\* root carries the prop bags and one whose root has MaxKids children
ListenerTrees ==
  {VNode("ul", b, NoKey, <<createTextElement("b")>>) : b \in PropBags}
  \cup {VNode("ul", NoProps, NoKey,
               [k \in 1..MaxKids |-> VNode("p", NoProps, NoKey, <<>>)])}

RenderProps(vnode) == renders < MaxDiffs /\ Rendered(vnode)

NextListeners == \E vnode \in ListenerTrees : RenderProps(vnode)

SpecListeners == InitDOM /\ [][NextListeners]_vars

(***************************************************************************)
(* Renderer claims                                                         *)
(***************************************************************************)
\* a host subtree with the node identities erased
RECURSIVE Shape(_)
Shape(node) ==
  [node EXCEPT !.id = 0,
               !.kids = [i \in 1..Len(node.kids) |-> Shape(node.kids[i])]]

\* the host subtree createDOMElement builds for vnode, identities erased
Fresh(vnode) == Shape(createDOMElement(RState(Undef, 1, <<>>, FALSE), vnode).p)

\* node is a host subtree that materializes vnode
Materializes(node, vnode) == Shape(node) = Fresh(vnode)

\* the host children materialize the descriptors, one to one and in order
KidsMaterialize(node, children) ==
  /\ Len(node.kids) = Len(children)
  /\ \A i \in 1..Len(children) : Materializes(node.kids[i], children[i])

KeySeq(children) == [i \in 1..Len(children) |-> children[i].key]
IdSeq(node) == [i \in 1..Len(node.kids) |-> node.kids[i].id]

AllKeyedUnique(children) ==
  /\ \A i \in 1..Len(children) : HasKey(children[i])
  /\ Injective(KeySeq(children))

NoneKeyed(children) == \A i \in 1..Len(children) : ~HasKey(children[i])

\* the host root element before and after the last render() call
RootBefore == prevContainer.kids[1]
RootAfter == container.kids[1]

Created(ops) ==
  {ops[i].id : i \in {j \in 1..Len(ops) :
                        ops[j].op \in {"createElement", "createTextNode"}}}
Removed(ops) ==
  {ops[i].id : i \in {j \in 1..Len(ops) : ops[j].op = "removeChild"}}

\* the last render() call diffed a keyed sibling list against a keyed sibling
\* list under the same root element, starting from a faithful host tree
KeyedDiffDone ==
  /\ ~Absent(prevVNode) /\ prevVNode.type = lastArg.type
  /\ prevVNode.children # <<>> /\ lastArg.children # <<>>
  /\ AllKeyedUnique(prevVNode.children) /\ AllKeyedUnique(lastArg.children)
  /\ Len(prevContainer.kids) = 1 /\ Materializes(RootBefore, prevVNode)

\* C1: old children keyed 1,2,3 materialized as H1,H2,H3, reconciled against
\* new children keyed 3,1: exactly H2 is removed, no host node is created and
\* the host children end up as [H3,H1].
C1_KeyedIdentityPreserved ==
  (/\ KeyedDiffDone
   /\ KeySeq(prevVNode.children) = <<NumKey(1), NumKey(2), NumKey(3)>>
   /\ KeySeq(lastArg.children) = <<NumKey(3), NumKey(1)>>)
  => /\ ~lastErr
     /\ Removed(lastOps) = {RootBefore.kids[2].id}
     /\ Created(lastOps) = {}
     /\ IdSeq(RootAfter) = <<RootBefore.kids[3].id, RootBefore.kids[1].id>>

\* C2: for old and new sibling lists with unique non-null keys, after the
\* keyed reconcile the host children are the nodes of the new children in the
\* new children's order (a key kept from the old list keeps its host node).
C2_KeyedFinalOrder ==
  KeyedDiffDone
  => /\ ~lastErr
     /\ KidsMaterialize(RootAfter, lastArg.children)
     /\ \A i \in 1..Len(lastArg.children) :
          \A j \in 1..Len(prevVNode.children) :
            lastArg.children[i].key = prevVNode.children[j].key
            => RootAfter.kids[i].id = RootBefore.kids[j].id

\* the last render() call diffed two sibling lists without keys under the
\* same root element, starting from a faithful host tree
PositionalDiffDone ==
  /\ ~Absent(prevVNode) /\ prevVNode.type = lastArg.type
  /\ prevVNode.props = lastArg.props
  /\ NoneKeyed(prevVNode.children) /\ NoneKeyed(lastArg.children)
  /\ Len(prevContainer.kids) = 1 /\ Materializes(RootBefore, prevVNode)

\* C3: the positional child diff of an old list of length m against a new
\* list of length n completes without error and leaves exactly n host
\* children, the i-th materializing the i-th new child.
C3_PositionalConverges ==
  PositionalDiffDone
  => /\ ~lastErr
     /\ KidsMaterialize(RootAfter, lastArg.children)

\* the last render() call was handed the very tree the container remembered
\* from the previous completed render
SameTreeAgain == renders >= 2 /\ ~Absent(prevVNode) /\ lastArg = prevVNode

\* C4: rendering the same descriptor tree twice in a row issues no host
\* mutation on the second pass, for keyed and non-keyed child lists alike.
C4_RenderIdempotent ==
  SameTreeAgain => lastOps = <<>> /\ container = prevContainer

C4_Witness ==
  /\ SameTreeAgain
  /\ Len(lastArg.children) = 3
  /\ AllKeyedUnique(lastArg.children)
  /\ lastOps = <<>>

\* the non-keyed and the prop-carrying trees are rendered twice as well
C4_WitnessPlainAndProps ==
  /\ SameTreeAgain
  /\ lastArg.props # NoProps
  /\ NoneKeyed(lastArg.children)

(***************************************************************************)
(* core/component.js: the Component base class                             *)
(***************************************************************************)
\* A state object has the keys a and b; -1 stands for "key not present".
\* NoState is null (an empty _pendingState).
NoState == [a |-> -1, b |-> -1]
InitialState == [a |-> 0, b |-> 0]      \* set by the subclass constructor

\* { ...base, ...partial }
Merge(base, partial) ==
  [a |-> IF partial.a # -1 THEN partial.a ELSE base.a,
   b |-> IF partial.b # -1 THEN partial.b ELSE base.b]

\* an update request: a partial state object or a function updater
ObjectRequest(partial) == [kind |-> "object", partial |-> partial, fn |-> ""]
FunctionRequest(fn) == [kind |-> "function", partial |-> NoState, fn |-> fn]

\* the function updater the callers pass: (state, props) => ({a: state.a + 1})
CallUpdater(fn, state) == [a |-> state.a + 1, b |-> -1]

Requests ==
  {ObjectRequest([a |-> 2, b |-> -1]), ObjectRequest([a |-> -1, b |-> 1]),
   FunctionRequest("incA")}

\* the subclass render(): the root tag depends on b, the text on a
View(state) ==
  VNode(IF state.b = 1 THEN "span" ELSE "div", NoProps, NoKey,
        <<createTextElement(ToStr(state.a))>>)

\* the subclasses' shouldComponentUpdate(props, nextState, prevState)
Guards == {"inherited", "never", "whenAChanges"}
shouldComponentUpdate(guard, nextState, prevState) ==
  IF guard = "never" THEN FALSE
  ELSE IF guard = "whenAChanges" THEN nextState.a # prevState.a
  ELSE TRUE                                    \* line 94

CompIds == {"A", "B"}

\* lines 10-18: the constructor
NewComponent(guard) ==
  [guard |-> guard, state |-> InitialState, prevVNode |-> NoVNode,
   domNode |-> 0, isMounted |-> FALSE, pendingState |-> NoState,
   renderScheduled |-> FALSE]

\* this._pendingState || this.state with the pending state forgotten: the
\* request is merged into the committed state
MergeBase_CommittedOnly(c) == c.state

\* this._pendingState || this.state
MergeBase(c) == IF c.pendingState # NoState THEN c.pendingState ELSE c.state

\* lines 24-29: the new _pendingState
PendingAfter(c, req) ==
  Merge(MergeBase(c),
        IF req.kind = "function" THEN CallUpdater(req.fn, MergeBase(c))
        ELSE req.partial)

\* dependency sequences: null/absent, or an array of values
NullDeps == [null |-> TRUE, v |-> <<>>]
DepsOf(v) == [null |-> FALSE, v |-> v]

\* a callback handed to Promise.resolve().then: the flush of a Component
\* (component.js line 41) or a deferred effect (hooks.js line 73), which
\* closes over the hook slot, the deps of its render and the state it read
Task(kind, inst, slot, deps, seen) ==
  [kind |-> kind, inst |-> inst, slot |-> slot, deps |-> deps, seen |-> seen]

FlushTask(i) == Task("flush", i, 0, NullDeps, 0)

\* the guard's verdict is compared with === false; here the test is lost
BailsOut_Never(verdict) == FALSE

\* line 65: shouldComponentUpdate?.(...) === false
BailsOut(verdict) == verdict = FALSE

\* this._domNode.parentNode: the container when the node is attached to it,
\* null (Undef) when it is detached
ParentNode(host, id) ==
  IF \E k \in 1..Len(host.kids) : host.kids[k].id = id THEN host ELSE Undef

\* lines 53-88: _updateComponent().  The result: the instance, the host,
\* what was called and whether the call threw.
UpdateResult(c, host, nid, ops, err, verdict, rendered, didUpdate) ==
  [c |-> c, host |-> host, nid |-> nid, ops |-> ops, err |-> err,
   verdict |-> verdict, rendered |-> rendered, didUpdate |-> didUpdate]

\* the guard's return value, as the flush is seen to have received it
Said(verdict) == IF verdict THEN "true" ELSE "false"

updateComponent(c, host, nid) ==
  IF ~c.isMounted
  THEN UpdateResult(c, host, nid, <<>>, FALSE, "not asked", FALSE, FALSE)
  ELSE
    LET prevState == c.state
        nextState == c.pendingState
        committed == [c EXCEPT !.state = nextState, !.pendingState = NoState]
        verdict == shouldComponentUpdate(c.guard, nextState, prevState)
    IN
    IF BailsOut(verdict)
    THEN UpdateResult(committed, host, nid, <<>>, FALSE, Said(verdict), FALSE,
                      FALSE)
    ELSE
      LET nextVNode == View(committed.state)
          rendered == [committed EXCEPT !.prevVNode = nextVNode]
          parentDOM == ParentNode(host, c.domNode)
      IN
      \* line 77 on an undefined _domNode, line 79 on a null parentNode
      IF c.domNode = 0 \/ IsUndef(parentDOM)
      THEN UpdateResult(rendered, host, nid, <<>>, TRUE, Said(verdict), TRUE,
                        FALSE)
      ELSE
        LET u == updateDOM(RState(parentDOM, nid, <<>>, FALSE), c.prevVNode,
                           nextVNode,
                           IndexOfNode(parentDOM, [id |-> c.domNode]))
        IN
        IF u.err
        THEN UpdateResult(rendered, u.p, u.nid, u.ops, TRUE, Said(verdict), TRUE,
                          FALSE)
        ELSE UpdateResult(
               [rendered EXCEPT !.domNode =
                  ChildAt(u.p, IndexOfNode(u.p, [id |-> c.domNode])).id],
               u.p, u.nid, u.ops, FALSE, Said(verdict), TRUE, TRUE)

(***************************************************************************)
(* SpecComp: instances, update requests and the microtask queue            *)
(***************************************************************************)
\* what the last executed flush of an instance did
NoFlush ==
  [ran |-> FALSE, mounted |-> FALSE, requests |-> <<>>, base |-> NoState,
   before |-> NoState, after |-> NoState, verdict |-> "not asked",
   rendered |-> FALSE, ops |-> <<>>, hostSame |-> TRUE, vnodeSame |-> TRUE,
   didUpdate |-> FALSE, err |-> FALSE]

NewObs ==
  [renders |-> 0,            \* render() calls made by updates
   syncRenders |-> 0,        \* render() calls made inside a requesting call
   batch |-> <<>>,           \* requests since the flush was scheduled
   batchBase |-> NoState,    \* pending-or-committed state when it was scheduled
   unmountedRequests |-> 0,  \* requests made while not mounted
   firstAt |-> 0,            \* the number of the request that scheduled the
                             \* flush now queued, 0 when none is queued
   willUnmountCalls |-> 0,   \* componentWillUnmount() calls
   detached |-> FALSE,       \* its host node was taken out of the host tree
   flush |-> NoFlush]

InitComp ==
  /\ container = EmptyContainer
  /\ nextId = EmptyContainer.id + 1
  /\ \E g \in Guards :
       comps = [i \in CompIds |->
                  NewComponent(IF i = "A" THEN g ELSE "inherited")]
  /\ microtasks = <<>>
  /\ requests = 0
  /\ obs = [i \in CompIds |-> NewObs]
  /\ fc = <<>>
  /\ fobs = <<>>
  /\ ctx = <<>>
  /\ el = <<>>
  /\ store = <<>>
  /\ rx = <<>>
  /\ hk = <<>>
  /\ curVNode = NoVNode
  /\ renders = 0
  /\ lastArg = NoVNode
  /\ lastOps = <<>>
  /\ lastErr = FALSE
  /\ prevContainer = EmptyContainer
  /\ prevVNode = NoVNode

UnchangedRenderer ==
  UNCHANGED <<curVNode, renders, lastArg, lastOps, lastErr, prevContainer,
              prevVNode>>

\* the instances whose host node is a child of host
AttachedIn(host) == {i \in CompIds : \E k \in 1..Len(host.kids) :
                                       host.kids[k].id = comps[i].domNode}

\* lines 107-120: instance.mount(container)
MountInstance(i) ==
  /\ ~comps[i].isMounted
  /\ \E c \in {createDOMElement(RState(Undef, nextId, <<>>, FALSE),
                                View(comps[i].state))} :
       /\ container' = AppendChild([container EXCEPT !.kids = <<>>], c.p)
       /\ nextId' = c.nid
       /\ comps' = [comps EXCEPT ![i].prevVNode = View(comps[i].state),
                                 ![i].domNode = c.p.id,
                                 ![i].isMounted = TRUE]
       \* container.innerHTML = '' takes the other instances' nodes out
       /\ obs' = [j \in CompIds |->
                    IF j # i /\ j \in AttachedIn(container)
                    THEN [obs[j] EXCEPT !.detached = TRUE] ELSE obs[j]]
  /\ UNCHANGED <<microtasks, requests>>
  /\ UnchangedRenderer

Mount(i) == MountInstance(i) /\ UNCHANGED <<hookVars, libVars>>

\* a microtask queue that runs the callback queued last first
Enqueue_AtHead(queue, task) == <<task>> \o queue

\* line 41: Promise.resolve().then(callback) puts the callback at the end of
\* the microtask queue
Enqueue(queue, task) == Append(queue, task)

\* lines 23-48: instance.setState(request)
SetState(i, req) ==
  /\ requests < MaxRequests
  /\ requests' = requests + 1
  /\ comps' = [comps EXCEPT ![i].pendingState = PendingAfter(comps[i], req),
                            ![i].renderScheduled = TRUE]
  /\ microtasks' = IF comps[i].renderScheduled THEN microtasks
                   ELSE Enqueue(microtasks, FlushTask(i))
  /\ obs' = [obs EXCEPT
       ![i].batch = IF comps[i].renderScheduled THEN Append(@, req) ELSE <<req>>,
       ![i].batchBase = IF comps[i].renderScheduled THEN @
                        ELSE MergeBase(comps[i]),
       ![i].firstAt = IF comps[i].renderScheduled THEN @ ELSE requests + 1,
       ![i].unmountedRequests = IF comps[i].isMounted THEN @ ELSE @ + 1]
  /\ UNCHANGED <<container, nextId>>
  /\ UNCHANGED <<hookVars, libVars>>
  /\ UnchangedRenderer

\* a flush callback that is taken off the queue and does nothing
RunFlush_Dropped ==
  /\ microtasks # <<>>
  /\ Head(microtasks).kind = "flush"
  /\ microtasks' = Tail(microtasks)
  /\ UNCHANGED <<comps, obs, container, nextId, requests>>
  /\ UNCHANGED <<hookVars, libVars>>
  /\ UnchangedRenderer

\* lines 41-46: the callback _scheduleUpdate handed to the microtask queue
RunFlush ==
  /\ microtasks # <<>>
  /\ Head(microtasks).kind = "flush"
  /\ LET i == Head(microtasks).inst IN
     \E c0 \in {[comps[i] EXCEPT !.renderScheduled = FALSE]} :
       IF c0.pendingState = NoState
       THEN /\ comps' = [comps EXCEPT ![i] = c0]
            /\ obs' = [obs EXCEPT ![i].batch = <<>>, ![i].firstAt = 0,
                                   ![i].flush = NoFlush]
            /\ UNCHANGED <<container, nextId>>
       ELSE \E r \in {updateComponent(c0, container, nextId)} :
            /\ comps' = [comps EXCEPT ![i] = r.c]
            /\ container' = r.host
            /\ nextId' = r.nid
            /\ obs' = [obs EXCEPT
                 ![i].renders = IF r.rendered THEN @ + 1 ELSE @,
                 ![i].batch = <<>>,
                 ![i].firstAt = 0,
                 ![i].flush =
                   [ran |-> TRUE, mounted |-> c0.isMounted,
                    requests |-> obs[i].batch, base |-> obs[i].batchBase,
                    before |-> c0.state, after |-> r.c.state,
                    verdict |-> r.verdict, rendered |-> r.rendered,
                    ops |-> r.ops, hostSame |-> r.host = container,
                    vnodeSame |-> r.c.prevVNode = c0.prevVNode,
                    didUpdate |-> r.didUpdate, err |-> r.err]]
  /\ microtasks' = Tail(microtasks)
  /\ UNCHANGED requests
  /\ UNCHANGED <<hookVars, libVars>>
  /\ UnchangedRenderer

NextComp ==
  \/ \E i \in CompIds : Mount(i)
  \/ \E req \in Requests : SetState("A", req)
  \/ RunFlush

SpecComp == InitComp /\ [][NextComp]_vars

\* line 41, Promise.resolve().then(callback): the host's event loop takes the
\* callback at the head of the microtask queue and runs it, once the
\* synchronous turn that queued it is over.  Of the steps of NextComp these
\* are the RunFlush steps.
DrainMicrotask == microtasks # <<>> /\ microtasks' = Tail(microtasks)

SpecCompFair == InitComp /\ [][NextComp]_vars /\ WF_microtasks(DrainMicrotask)

(***************************************************************************)
(* core/hooks.js and the FunctionalComponent wrapper of core/component.js  *)
(***************************************************************************)
\* the values hooks store and return: [t |-> typeof, v |-> which one].  v is
\* the number, the length of the string, 0/1 for false/true, the identity of
\* the function.
Num(n) == [t |-> "number", v |-> n]
EmptyStr == [t |-> "string", v |-> 0]
False == [t |-> "boolean", v |-> 0]
Null == [t |-> "null", v |-> 0]
Undefined == [t |-> "undefined", v |-> 0]
Fn(id) == [t |-> "function", v |-> id]

\* !x is false
Truthy(x) ==
  /\ x.t \notin {"null", "undefined"}
  /\ x.t \in {"number", "string", "boolean"} => x.v # 0

\* a hook slot: the object stored in component._hooks[hookIndex], with the
\* fields the hooks give it (state; current; value; deps; cleanup), Undefined
\* where the object lacks the field.  cleanup is the identity of the stored
\* cleanup function, 0 for none.  kind names the hook that created the slot.
Slot(kind) ==
  [kind |-> kind, state |-> Undefined, current |-> Undefined,
   value |-> Undefined, deps |-> NullDeps, cleanup |-> 0]
StateSlot(value) == [Slot("state") EXCEPT !.state = value]
EffectSlot == Slot("effect")
RefSlot(initialValue) == [Slot("ref") EXCEPT !.current = initialValue]
MemoSlot(value) == [Slot("memo") EXCEPT !.value = value]

\* a render in progress: the instance's slots, currentHookIndex, the
\* microtasks it queued and the cleanup functions it called
\* ran lists the effect bodies run before the render returned, inits the
\* state initializers and factories the memo factories it called, out what
\* each hook call returned, misread the hook calls that were handed a slot
\* another kind of hook created
Rendering(hooks) ==
  [hooks |-> hooks, index |-> 0, tasks |-> <<>>, called |-> <<>>, ran |-> <<>>,
   inits |-> 0, factories |-> <<>>, out |-> <<>>, misread |-> <<>>]

\* the hook call `by` is handed the slot at H.index + 1
Misread(H, by) ==
  IF H.index + 1 <= Len(H.hooks) /\ H.hooks[H.index + 1].kind # by
  THEN Append(H.misread, [slot |-> H.index + 1, by |-> by,
                          kind |-> H.hooks[H.index + 1].kind])
  ELSE H.misread

\* the argument of useState: a value, or a function returning it
Plain(value) == [lazy |-> FALSE, v |-> value]
Lazy(value) == [lazy |-> TRUE, v |-> value]

\* useState that seeds the slot again whenever the stored value is falsy
useState_ReseedsFalsy(H, initialState) ==
  LET slot == H.index + 1
      create == slot > Len(H.hooks) \/ ~Truthy(H.hooks[slot].state)
      hooks == IF slot > Len(H.hooks)
               THEN Append(H.hooks, StateSlot(initialState.v))
               ELSE IF create
               THEN [H.hooks EXCEPT ![slot] = StateSlot(initialState.v)]
               ELSE H.hooks
  IN [H EXCEPT !.index = slot,
               !.hooks = hooks,
               !.inits = IF create /\ initialState.lazy THEN @ + 1 ELSE @,
               !.out = Append(@, hooks[slot].state),
               !.misread = Misread(H, "state")]

\* lines 18-30: useState(initialState) up to the slot it reads
useState(H, initialState) ==
  LET slot == H.index + 1
      create == slot > Len(H.hooks)
      hooks == IF create THEN Append(H.hooks, StateSlot(initialState.v))
               ELSE H.hooks
  IN [H EXCEPT !.index = slot,
               !.hooks = hooks,
               !.inits = IF create /\ initialState.lazy THEN @ + 1 ELSE @,
               !.out = Append(@, hooks[slot].state),
               !.misread = Misread(H, "state")]

\* lines 63-64: !hook.deps || !deps || deps.some((dep, i) => dep !== hook.deps[i])
\* hook.deps[i] past the end of the stored sequence is undefined
DepsChanged(stored, deps) ==
  \/ stored.null
  \/ deps.null
  \/ \E i \in 1..Len(deps.v) :
       deps.v[i] # (IF i > Len(stored.v) THEN Undefined ELSE stored.v[i])

\* useEffect with the effect body called before useEffect returns
useEffect_BodyInline(H, deps, seen) ==
  LET slot == H.index + 1
      hooks == IF slot > Len(H.hooks) THEN Append(H.hooks, EffectSlot)
               ELSE H.hooks
  IN IF DepsChanged(hooks[slot].deps, deps)
     THEN [H EXCEPT !.index = slot,
                    !.hooks = [hooks EXCEPT ![slot].deps = deps],
                    !.ran = Append(@, slot)]
     ELSE [H EXCEPT !.index = slot, !.hooks = hooks]

\* lines 50-78: useEffect(effect, deps); seen is the state the effect closes over
useEffect(H, deps, seen) ==
  LET slot == H.index + 1
      hooks == IF slot > Len(H.hooks) THEN Append(H.hooks, EffectSlot)
               ELSE H.hooks
      hook == hooks[slot]
  IN IF DepsChanged(hook.deps, deps)
     THEN [H EXCEPT !.index = slot,
                    !.hooks = hooks,
                    !.misread = Misread(H, "effect"),
                    !.called = IF hook.cleanup # 0
                               THEN Append(@, [slot |-> slot, fn |-> hook.cleanup])
                               ELSE @,
                    !.tasks = Append(@, Task("effect", "F", slot, deps, seen))]
     ELSE [H EXCEPT !.index = slot, !.hooks = hooks,
                    !.misread = Misread(H, "effect")]

\* useRef that makes a new container on every render
useRef_NewContainer(H, initialValue) ==
  LET slot == H.index + 1
      hooks == IF slot > Len(H.hooks) THEN Append(H.hooks, RefSlot(initialValue))
               ELSE [H.hooks EXCEPT ![slot] = RefSlot(initialValue)]
  IN [H EXCEPT !.index = slot,
               !.hooks = hooks,
               !.out = Append(@, hooks[slot].current),
               !.misread = Misread(H, "ref")]

\* lines 83-94: useRef(initialValue); it returns the slot object, of which the
\* caller reads .current
useRef(H, initialValue) ==
  LET slot == H.index + 1
      hooks == IF slot > Len(H.hooks) THEN Append(H.hooks, RefSlot(initialValue))
               ELSE H.hooks
  IN [H EXCEPT !.index = slot,
               !.hooks = hooks,
               !.out = Append(@, hooks[slot].current),
               !.misread = Misread(H, "ref")]

\* useMemo that calls the factory on every render
useMemo_AlwaysComputes(H, made, deps) ==
  LET slot == H.index + 1
      hooks == IF slot > Len(H.hooks) THEN Append(H.hooks, MemoSlot(made))
               ELSE H.hooks
  IN [H EXCEPT !.index = slot,
               !.hooks = [hooks EXCEPT ![slot].deps = deps, ![slot].value = made],
               !.factories = Append(@, slot),
               !.out = Append(@, made),
               !.misread = Misread(H, "memo")]

\* lines 99-124: useMemo(factory, deps); made is what factory() returns when
\* it is called in this render
useMemo(H, made, deps) ==
  LET slot == H.index + 1
      create == slot > Len(H.hooks)
      hooks == IF create THEN Append(H.hooks, MemoSlot(made)) ELSE H.hooks
      changed == DepsChanged(hooks[slot].deps, deps)
      after == IF changed
               THEN [hooks EXCEPT ![slot].deps = deps, ![slot].value = made]
               ELSE hooks
  IN [H EXCEPT !.index = slot,
               !.hooks = after,
               !.factories = @ \o (IF create THEN <<slot>> ELSE <<>>)
                               \o (IF changed THEN <<slot>> ELSE <<>>),
               !.out = Append(@, after[slot].value),
               !.misread = Misread(H, "memo")]

\* lines 129-131: useCallback(callback, deps) = useMemo(() => callback, deps)
useCallback(H, callback, deps) == useMemo(H, callback, deps)

\* the component function handed to FunctionalComponent as props.component:
\*   const [n, setN] = useState(0);
\*   useEffect(() => { ...; return () => { ... } }, [n]);
\*   useEffect(() => { ...; return () => { ... } }, []);
\*   return createElement('div', null, n)
ComponentFunction(H0) ==
  LET H1 == useState(H0, Plain(Num(0)))
      n == H1.hooks[1].state
      H2 == useEffect(H1, DepsOf(<<n>>), n.v)
  IN useEffect(H2, DepsOf(<<>>), n.v)

\* a second component function, which takes seed and memoDeps from its props;
\* r is the number of the render, which tells its closures apart:
\*   const [v, setV] = useState(() => props.seed);
\*   const [d, setD] = useState(0);
\*   const m = useMemo(() => r, props.memoDeps ? [d] : null);
\*   const cb = useCallback(() => r, [d]);
\*   const last = d === 0 ? useRef(9).current : useMemo(() => 5, []);
\*   return createElement('div', null, d)
SlotsFunction(H0, props, r) ==
  LET H1 == useState(H0, Lazy(props.seed))
      H2 == useState(H1, Plain(Num(0)))
      d == H2.hooks[2].state
      H3 == useMemo(H2, Num(r), IF props.memoDeps THEN DepsOf(<<d>>) ELSE NullDeps)
      H4 == useCallback(H3, Fn(r), DepsOf(<<d>>))
  IN IF d = Num(0) THEN useRef(H4, Num(9))
     ELSE useMemo(H4, Num(5), DepsOf(<<>>))

\* a third component function, which keeps a ref next to its state; r is the
\* number of the render:
\*   const [n, setN] = useState(0);
\*   const ref = useRef(r);
\*   return createElement('div', null, n)
RefFunction(H0, r) == useRef(useState(H0, Plain(Num(0))), Num(r))

\* the slot of RefFunction's ref
RefAt == 2

\* a fourth component function, whose dependency sequence follows its state:
\*   const [n, setN] = useState(0);
\*   const deps = n === 0 ? props.first : props.second;
\*   const m = useMemo(() => r, deps);
\*   useEffect(() => { ...; return () => { ... } }, deps);
\*   return createElement('div', null, n)
DepsFor(props, n) == IF n = Num(0) THEN props.first ELSE props.second
DepsFunction(H0, props, r) ==
  LET H1 == useState(H0, Plain(Num(0)))
      n == H1.hooks[1].state
      H2 == useMemo(H1, Num(r), DepsFor(props, n))
  IN useEffect(H2, DepsFor(props, n), n.v)

\* the slots of DepsFunction
DepsMemoAt == 2
DepsEffectAt == 3

\* the slots of SlotsFunction
SeedSlot == 1
CountSlot == 2
MemoSlotAt == 3
CallbackSlot == 4
LastSlot == 5

\* the props handed to FunctionalComponent
EffectsProps == [component |-> "ComponentFunction", seed |-> Num(0), memoDeps |-> TRUE]
SlotsProps(seed, memoDeps) ==
  [component |-> "SlotsFunction", seed |-> seed, memoDeps |-> memoDeps]

FView(hooks) ==
  VNode("div", NoProps, NoKey,
        <<createTextElement(ToStr(
            IF fc.props.component = "SlotsFunction" THEN hooks[CountSlot].state.v
            ELSE hooks[1].state.v))>>)

\* component.js lines 159-162: render() = prepareHooksForRender(this), then
\* the component function
FRender(hooks) ==
  IF fc.props.component = "SlotsFunction"
  THEN SlotsFunction(Rendering(hooks), fc.props, fobs.renders + 1)
  ELSE IF fc.props.component = "RefFunction"
  THEN RefFunction(Rendering(hooks), fobs.renders + 1)
  ELSE IF fc.props.component = "DepsFunction"
  THEN DepsFunction(Rendering(hooks), fc.props, fobs.renders + 1)
  ELSE ComponentFunction(Rendering(hooks))

\* component.js lines 149-171: the instance FunctionalComponent(props) returns
FunctionalComponent(props) ==
  [props |-> props, hooks |-> <<>>, hasContainer |-> FALSE, prevVNode |-> NoVNode]
NewFunctional == FunctionalComponent(EffectsProps)

\* what a setter call was seen to do
NoSetterCall ==
  [calls |-> 0, slot |-> 0, before |-> Undefined, proposed |-> Undefined,
   after |-> Undefined, updates |-> 0, renders |-> 0]
NoRender == [before |-> <<>>, out |-> <<>>, factories |-> <<>>, queued |-> <<>>]

\* the slots of the effects a render deferred, in order
Queued(H) == [k \in 1..Len(H.tasks) |-> H.tasks[k].slot]

NewFObs ==
  [renders |-> 0,        \* render() calls
   syncRenders |-> 0,    \* render() calls made inside a requesting call
   dom |-> 0,            \* the host node mount() created
   cleanupCalls |-> <<>>,\* the cleanup functions called, in order
   effectRuns |-> 0,     \* effect bodies run
   bodyRuns |-> <<>>,    \* the slots whose effect body ran, in order
   ranInRender |-> 0,    \* effect bodies run before render() returned
   commits |-> 0,        \* host mutations (mount or diff) that completed
   inits |-> 0,          \* state initializer functions called
   misread |-> <<>>,     \* hook calls handed a slot of another kind of hook
   last |-> NoRender,    \* the last render: slots before it, what the hooks
                         \* returned, the memo factories called
   setter |-> NoSetterCall,
   threw |-> FALSE]      \* the last call threw

\* the arguments callers hand to the state setter
SetterValue(v) == [kind |-> "value", v |-> v]
SetterUpdater == [kind |-> "function", v |-> Undefined]
SetterArgs == {SetterValue(Num(0)), SetterValue(Num(1)), SetterUpdater}

\* hooks.js lines 34-36: the proposed next state (the updater is n => n + 1)
NextHookState(arg, current) ==
  IF arg.kind = "function" THEN Num(current.v + 1) ELSE arg.v

InitHooks ==
  /\ container = EmptyContainer
  /\ nextId = EmptyContainer.id + 1
  /\ comps = [i \in CompIds |-> NewComponent("inherited")]
  /\ microtasks = <<>>
  /\ requests = 0
  /\ obs = [i \in CompIds |-> NewObs]
  /\ fc = NewFunctional
  /\ fobs = NewFObs
  /\ ctx = <<>>
  /\ el = <<>>
  /\ store = <<>>
  /\ rx = <<>>
  /\ hk = <<>>
  /\ curVNode = NoVNode
  /\ renders = 0
  /\ lastArg = NoVNode
  /\ lastOps = <<>>
  /\ lastErr = FALSE
  /\ prevContainer = EmptyContainer
  /\ prevVNode = NoVNode

\* component.js lines 163-170: instance.mount(container)
FMount ==
  /\ ~fc.hasContainer
  /\ \E H \in {FRender(fc.hooks)} :
     \E c \in {createDOMElement(RState(Undef, nextId, <<>>, FALSE),
                                FView(H.hooks))} :
       /\ fc' = [fc EXCEPT !.hooks = H.hooks, !.hasContainer = TRUE,
                           !.prevVNode = FView(H.hooks)]
       /\ microtasks' = microtasks \o H.tasks
       /\ container' = AppendChild(container, c.p)
       /\ nextId' = c.nid
       /\ fobs' = [fobs EXCEPT !.renders = @ + 1,
                               !.dom = c.p.id,
                               !.cleanupCalls = @ \o H.called,
                               !.ranInRender = @ + Len(H.ran),
                               !.commits = @ + 1,
                               !.inits = @ + H.inits,
                               !.misread = @ \o H.misread,
                               !.last = [before |-> fc.hooks, out |-> H.out,
                                         factories |-> H.factories,
                                         queued |-> Queued(H)],
                               !.threw = FALSE]
  /\ UNCHANGED <<comps, obs, requests, ctx, libVars>>
  /\ UnchangedRenderer

\* the setter with the equality test lost
StateDiffers_Always(nextState, current) == TRUE

\* hooks.js line 38: nextState !== hook.state
StateDiffers(nextState, current) == nextState # current

SetterCall(slot, before, proposed, after, updates, rendered) ==
  [calls |-> fobs.setter.calls + 1, slot |-> slot, before |-> before,
   proposed |-> proposed, after |-> after, updates |-> updates,
   renders |-> rendered]

\* hooks.js lines 33-42 with component.js lines 152-158: the setter the
\* useState call of the slot returned, and the _scheduleUpdate() it calls
FSetStateAt(slot, arg) ==
  /\ requests < MaxRequests
  /\ Len(fc.hooks) >= slot
  /\ requests' = requests + 1
  /\ LET current == fc.hooks[slot].state
         nextState == NextHookState(arg, current)
         stored == [fc.hooks EXCEPT ![slot].state = nextState]
     IN
     IF ~StateDiffers(nextState, current)
     THEN /\ UNCHANGED <<fc, microtasks, container, nextId>>
          /\ fobs' = [fobs EXCEPT
               !.threw = FALSE,
               !.setter = SetterCall(slot, current, nextState, current, 0, 0)]
     ELSE IF ~fc.hasContainer
     THEN /\ fc' = [fc EXCEPT !.hooks = stored]
          /\ fobs' = [fobs EXCEPT
               !.threw = FALSE,
               !.setter = SetterCall(slot, current, nextState, nextState, 1, 0)]
          /\ UNCHANGED <<microtasks, container, nextId>>
     ELSE \E H \in {FRender(stored)} :
          \E u \in {updateDOM(RState(container, nextId, <<>>, FALSE),
                              fc.prevVNode, FView(H.hooks), 0)} :
            /\ fc' = [fc EXCEPT !.hooks = H.hooks,
                                !.prevVNode = IF u.err THEN @ ELSE FView(H.hooks)]
            /\ microtasks' = microtasks \o H.tasks
            /\ container' = u.p
            /\ nextId' = u.nid
            /\ fobs' = [fobs EXCEPT
                 !.renders = @ + 1,
                 !.syncRenders = @ + 1,
                 !.cleanupCalls = @ \o H.called,
                 !.ranInRender = @ + Len(H.ran),
                 !.commits = IF u.err THEN @ ELSE @ + 1,
                 !.inits = @ + H.inits,
                 !.misread = @ \o H.misread,
                 !.last = [before |-> stored, out |-> H.out,
                           factories |-> H.factories,
                           queued |-> Queued(H)],
                 !.threw = u.err,
                 !.setter = SetterCall(slot, current, nextState,
                                       H.hooks[slot].state, 1, 1)]
  /\ UNCHANGED <<comps, obs, ctx, libVars>>
  /\ UnchangedRenderer

\* the setter of ComponentFunction's state slot
FSetState(arg) == FSetStateAt(1, arg)

\* hooks.js lines 73-76: the deferred effect: hook.deps = deps;
\* hook.cleanup = effect()
RunEffect ==
  /\ microtasks # <<>>
  /\ Head(microtasks).kind = "effect"
  /\ LET t == Head(microtasks) IN
       /\ fc' = [fc EXCEPT !.hooks[t.slot].deps = t.deps,
                           !.hooks[t.slot].cleanup = fobs.effectRuns + 1]
       /\ fobs' = [fobs EXCEPT !.effectRuns = @ + 1,
                               !.bodyRuns = Append(@, t.slot)]
  /\ microtasks' = Tail(microtasks)
  /\ UNCHANGED <<comps, obs, requests, container, nextId, ctx, libVars>>
  /\ UnchangedRenderer

NextHooks ==
  \/ FMount
  \/ \E arg \in SetterArgs : FSetState(arg)
  \/ RunEffect
  \/ \E i \in CompIds : Mount(i)
  \/ \E req \in Requests : SetState("A", req)
  \/ RunFlush

SpecHooks == InitHooks /\ [][NextHooks]_vars

\* the hook-based instance next to class instances that are mounted on the
\* same container but never updated
NextEffects ==
  \/ FMount
  \/ \E arg \in SetterArgs : FSetState(arg)
  \/ RunEffect
  \/ \E i \in CompIds : Mount(i)

SpecEffects == InitHooks /\ [][NextEffects]_vars

\* two class instances that both receive update requests, next to the
\* hook-based instance and its deferred effects, on one microtask queue
NextOrder ==
  \/ FMount
  \/ FSetState(SetterUpdater)
  \/ RunEffect
  \/ \E i \in CompIds : Mount(i)
  \/ \E i \in CompIds : SetState(i, FunctionRequest("incA"))
  \/ RunFlush

SpecOrder == InitHooks /\ [][NextOrder]_vars

\* the values SlotsFunction's seed slot is given, falsy ones included
Seeds == {Num(0), EmptyStr, False, Null, Num(1)}
SeedArgs == {SetterValue(x) : x \in Seeds}

InitSlots ==
  /\ container = EmptyContainer
  /\ nextId = EmptyContainer.id + 1
  /\ comps = [i \in CompIds |-> NewComponent("inherited")]
  /\ microtasks = <<>>
  /\ requests = 0
  /\ obs = [i \in CompIds |-> NewObs]
  /\ \E seed \in Seeds, memoDeps \in BOOLEAN :
       fc = FunctionalComponent(SlotsProps(seed, memoDeps))
  /\ fobs = NewFObs
  /\ ctx = <<>>
  /\ el = <<>>
  /\ store = <<>>
  /\ rx = <<>>
  /\ hk = <<>>
  /\ curVNode = NoVNode
  /\ renders = 0
  /\ lastArg = NoVNode
  /\ lastOps = <<>>
  /\ lastErr = FALSE
  /\ prevContainer = EmptyContainer
  /\ prevVNode = NoVNode

SetSeed(arg) == FSetStateAt(SeedSlot, arg)
SetCount(arg) == FSetStateAt(CountSlot, arg)

NextSlots ==
  \/ FMount
  \/ \E arg \in SeedArgs : SetSeed(arg)
  \/ \E arg \in SetterArgs : SetCount(arg)

SpecSlots == InitSlots /\ [][NextSlots]_vars

\* the instance of RefFunction, whose callers write ref.current
RefProps == [component |-> "RefFunction", seed |-> Num(0), memoDeps |-> TRUE]
Written == {Num(7), Num(8)}

InitRef ==
  /\ container = EmptyContainer
  /\ nextId = EmptyContainer.id + 1
  /\ comps = [i \in CompIds |-> NewComponent("inherited")]
  /\ microtasks = <<>>
  /\ requests = 0
  /\ obs = [i \in CompIds |-> NewObs]
  /\ fc = FunctionalComponent(RefProps)
  /\ fobs = NewFObs
  /\ ctx = <<>>
  /\ el = <<>>
  /\ store = <<>>
  /\ rx = <<>>
  /\ hk = <<>>
  /\ curVNode = NoVNode
  /\ renders = 0
  /\ lastArg = NoVNode
  /\ lastOps = <<>>
  /\ lastErr = FALSE
  /\ prevContainer = EmptyContainer
  /\ prevVNode = NoVNode

\* ref.current = v, by a caller that holds the object useRef returned: a
\* plain property assignment on the slot object
WriteRef(v) ==
  /\ Len(fc.hooks) >= RefAt
  /\ fc' = [fc EXCEPT !.hooks[RefAt].current = v]
  /\ UNCHANGED <<fobs, microtasks, requests, container, nextId, comps, obs, ctx, libVars>>
  /\ UnchangedRenderer

NextRef ==
  \/ FMount
  \/ \E arg \in SetterArgs : FSetState(arg)
  \/ \E v \in Written : WriteRef(v)
  \/ \E i \in CompIds : Mount(i)

SpecRef == InitRef /\ [][NextRef]_vars

\* the instances of DepsFunction: the dependency sequences a caller hands to
\* useMemo and useEffect, of any length up to MaxDeps
DepValues == {Num(1), Undefined}
DepSeqs == UNION {[1..n -> DepValues] : n \in 0..MaxDeps}
DepsProps(first, second) ==
  [component |-> "DepsFunction", seed |-> Num(0), memoDeps |-> TRUE,
   first |-> DepsOf(first), second |-> DepsOf(second)]

InitDeps ==
  /\ container = EmptyContainer
  /\ nextId = EmptyContainer.id + 1
  /\ comps = [i \in CompIds |-> NewComponent("inherited")]
  /\ microtasks = <<>>
  /\ requests = 0
  /\ obs = [i \in CompIds |-> NewObs]
  /\ \E first, second \in DepSeqs :
       fc = FunctionalComponent(DepsProps(first, second))
  /\ fobs = NewFObs
  /\ ctx = <<>>
  /\ el = <<>>
  /\ store = <<>>
  /\ rx = <<>>
  /\ hk = <<>>
  /\ curVNode = NoVNode
  /\ renders = 0
  /\ lastArg = NoVNode
  /\ lastOps = <<>>
  /\ lastErr = FALSE
  /\ prevContainer = EmptyContainer
  /\ prevVNode = NoVNode

NextDeps ==
  \/ FMount
  \/ \E arg \in SetterArgs : FSetState(arg)
  \/ RunEffect

SpecDeps == InitDeps /\ [][NextDeps]_vars

(***************************************************************************)
(* Contexts: createContext and useContext of core/hooks.js, and            *)
(* createEnhancedContext of state/context.js                               *)
(***************************************************************************)
ContextIds == {"X", "Y"}

\* hooks.js lines 145-166: the object createContext(defaultValue) returns;
\* enhanced tells that it was made by createEnhancedContext(defaultValue)
createContext(id, defaultValue, enhanced) ==
  [id |-> id, defaultValue |-> defaultValue, enhanced |-> enhanced]

\* lines 147-153: the descriptor context.Provider({ value, children }) returns
Provider(context, value) ==
  [type |-> "CONTEXT_PROVIDER", contextId |-> context.id, value |-> value]

\* what a hook call gave its caller
Returned(value) == [threw |-> FALSE, value |-> value]
Thrown == [threw |-> TRUE, value |-> Undefined]

\* lines 136-140: useContext(context)
useContext(context) == Returned(context.defaultValue)

\* state/context.js lines 292-300: the useContext member of an enhanced context
useEnhancedContext(context) ==
  IF useContext(context).value = Undefined THEN Thrown
  ELSE useContext(context)

DefaultValues == {Undefined, Num(0), Num(1)}
ProvidedValues == {Num(2), Num(3)}

NoRead ==
  [called |-> FALSE, contextId |-> "X", enclosing |-> <<>>,
   result |-> Returned(Undefined)]

InitContext ==
  /\ container = EmptyContainer
  /\ nextId = EmptyContainer.id + 1
  /\ comps = <<>>
  /\ microtasks = <<>>
  /\ requests = 0
  /\ obs = <<>>
  /\ fc = <<>>
  /\ fobs = <<>>
  /\ \E dx \in DefaultValues, dy \in DefaultValues, ex \in BOOLEAN :
       ctx = [contexts |-> [id \in ContextIds |->
                              IF id = "X" THEN createContext(id, dx, ex)
                              ELSE createContext(id, dy, FALSE)],
              stack |-> <<>>,
              read |-> NoRead]
  /\ el = <<>>
  /\ store = <<>>
  /\ rx = <<>>
  /\ hk = <<>>
  /\ curVNode = NoVNode
  /\ renders = 0
  /\ lastArg = NoVNode
  /\ lastOps = <<>>
  /\ lastErr = FALSE
  /\ prevContainer = EmptyContainer
  /\ prevVNode = NoVNode

UnchangedInstances ==
  UNCHANGED <<container, nextId, comps, microtasks, requests, obs, fc, fobs,
              libVars>>

\* the tree being rendered goes into context.Provider({ value, children })
EnterProvider(id, value) ==
  /\ Len(ctx.stack) < MaxDepth
  /\ ctx' = [ctx EXCEPT !.stack = Append(@, Provider(ctx.contexts[id], value))]
  /\ UnchangedInstances
  /\ UnchangedRenderer

\* the children of the innermost Provider have been rendered
LeaveProvider ==
  /\ ctx.stack # <<>>
  /\ ctx' = [ctx EXCEPT !.stack = SubSeq(@, 1, Len(@) - 1)]
  /\ UnchangedInstances
  /\ UnchangedRenderer

\* a component being rendered at this place calls useContext for the context
UseContext(id) ==
  /\ ctx' = [ctx EXCEPT !.read =
       [called |-> TRUE, contextId |-> id, enclosing |-> ctx.stack,
        result |-> IF ctx.contexts[id].enhanced
                   THEN useEnhancedContext(ctx.contexts[id])
                   ELSE useContext(ctx.contexts[id])]]
  /\ UnchangedInstances
  /\ UnchangedRenderer

NextContext ==
  \/ \E id \in ContextIds, value \in ProvidedValues : EnterProvider(id, value)
  \/ LeaveProvider
  \/ \E id \in ContextIds : UseContext(id)

SpecContext == InitContext /\ [][NextContext]_vars

(***************************************************************************)
(* Component claims                                                        *)
(***************************************************************************)
\* the requests merged one after the other onto base, in request order
RECURSIVE ApplyAll(_, _)
ApplyAll(base, reqs) ==
  IF reqs = <<>> THEN base
  ELSE ApplyAll(Merge(base, IF Head(reqs).kind = "function"
                            THEN CallUpdater(Head(reqs).fn, base)
                            ELSE Head(reqs).partial),
                Tail(reqs))

QueuedFlushes(i) ==
  Cardinality({k \in 1..Len(microtasks) : microtasks[k] = FlushTask(i)})

\* C5: the update requests made against a mounted instance before its flush
\* runs are coalesced: one flush is queued for them, and it runs render once
\* (unless the update guard bails out) on the merge of all of them in request
\* order, each function updater having received the previous merges.
C5_BatchedIntoOneRender ==
  \A i \in CompIds :
    /\ QueuedFlushes(i) = IF comps[i].renderScheduled THEN 1 ELSE 0
    /\ comps[i].renderScheduled
       => comps[i].pendingState = ApplyAll(obs[i].batchBase, obs[i].batch)
    /\ obs[i].flush.ran /\ obs[i].flush.mounted
       => /\ obs[i].flush.after =
               ApplyAll(obs[i].flush.base, obs[i].flush.requests)
          /\ obs[i].flush.rendered <=> obs[i].flush.verdict # "false"

C5_Witness ==
  \E i \in CompIds :
    /\ obs[i].flush.ran /\ obs[i].flush.mounted /\ obs[i].flush.rendered
    /\ obs[i].renders = 1
    /\ obs[i].flush.requests =
         <<ObjectRequest([a |-> 2, b |-> -1]), FunctionRequest("incA"),
           ObjectRequest([a |-> -1, b |-> 1])>>
    /\ obs[i].flush.after = [a |-> 3, b |-> 1]

\* C7: when shouldComponentUpdate returns false for the pending update,
\* render is not invoked, no host mutation is issued, _prevVNode is unchanged
\* and componentDidUpdate is not called.
C7_BailOutLeavesHostUntouched ==
  \A i \in CompIds :
    obs[i].flush.ran /\ obs[i].flush.verdict = "false"
    => /\ ~obs[i].flush.rendered
       /\ obs[i].flush.ops = <<>>
       /\ obs[i].flush.hostSame
       /\ obs[i].flush.vnodeSame
       /\ ~obs[i].flush.didUpdate

C7_Witness ==
  \E i \in CompIds :
    /\ obs[i].flush.ran /\ obs[i].flush.verdict = "false"
    /\ Len(obs[i].flush.requests) >= 1
    /\ comps[i].guard = "whenAChanges"
    /\ obs[i].renders >= 1

\* C8: after an update-guard bail-out the committed state equals the state
\* the instance had before the discarded update requests.
C8_BailOutDiscardsUpdate ==
  \A i \in CompIds :
    obs[i].flush.ran /\ obs[i].flush.verdict = "false"
    => obs[i].flush.after = obs[i].flush.before

\* C10: an update request on an instance that is not mounted leaves its state
\* and pendingState as they were (nothing of it can be applied later).
C10_UnmountedRequestIsNoOp ==
  \A i \in CompIds :
    ~comps[i].isMounted
    => comps[i].pendingState = NoState /\ comps[i].state = InitialState

\* the host node FunctionalComponent.mount created is no longer in the host tree
FDetached ==
  /\ fobs.dom # 0
  /\ \A k \in 1..Len(container.kids) : container.kids[k].id # fobs.dom

\* the cleanup function slot s holds has been called
CleanupCalled(s) ==
  \E k \in 1..Len(fobs.cleanupCalls) :
    fobs.cleanupCalls[k] = [slot |-> s, fn |-> fc.hooks[s].cleanup]

\* C6: no update request, on a Component or on a FunctionalComponent, runs the
\* instance's render inside the requesting call.
C6_NoRenderInsideRequest ==
  /\ \A i \in CompIds : obs[i].syncRenders = 0
  /\ fobs.syncRenders = 0

\* C9: an instance whose host node has been taken out of the host tree had
\* its componentWillUnmount called and is marked unmounted, and every effect
\* cleanup its hook slots hold has been called.
C9_UnmountRunsCleanups ==
  /\ \A i \in CompIds :
       obs[i].detached => obs[i].willUnmountCalls >= 1 /\ ~comps[i].isMounted
  /\ FDetached =>
       \A s \in 1..Len(fc.hooks) : fc.hooks[s].cleanup # 0 => CleanupCalled(s)

(***************************************************************************)
(* Effect claims                                                           *)
(***************************************************************************)
\* the slots of ComponentFunction: useEffect(.., [n]) and useEffect(.., [])
DepsSlot == 2
EmptyDepsSlot == 3

BodyRunsOf(s) ==
  Cardinality({k \in 1..Len(fobs.bodyRuns) : fobs.bodyRuns[k] = s})

CleanupCallsOf(s) ==
  Cardinality({k \in 1..Len(fobs.cleanupCalls) : fobs.cleanupCalls[k].slot = s})

EffectQueued ==
  \E k \in 1..Len(microtasks) : microtasks[k].kind = "effect"

\* C11: for the effect declared with [x], each change of x calls the stored
\* cleanup exactly once before the new body runs: the cleanups called never
\* outnumber the bodies that returned them.
C11_CleanupOncePerChange == CleanupCallsOf(DepsSlot) <= BodyRunsOf(DepsSlot)

\* C12: the effect declared with an empty dependency sequence runs its body
\* at most once over the life of the instance, under every interleaving of
\* renders and deferred effects.
C12_EmptyDepsRunsOnce == BodyRunsOf(EmptyDepsSlot) <= 1

\* C13: no effect body runs before the render that scheduled it has returned,
\* and whenever an effect body is waiting to run, the host mutation of every
\* render made so far has completed.
C13_EffectsRunAfterCommit ==
  /\ fobs.ranInRender = 0
  /\ EffectQueued => fobs.commits = fobs.renders /\ ~fobs.threw

C13_Witness ==
  /\ EffectQueued
  /\ fobs.renders >= 2
  /\ fobs.syncRenders >= 1
  /\ Len(fobs.bodyRuns) >= 2

(***************************************************************************)
(* Hook slot claims                                                        *)
(***************************************************************************)
\* C14: no hook call is handed a slot that another kind of hook created
\* (a render whose hook calls differ from the stored slots is stopped).
C14_NoSlotMisread == fobs.misread = <<>>

\* C18: a setter call whose proposed value is the stored one changes nothing
\* and requests no update; with another value it stores the value and
\* requests one update, which renders the mounted instance once.
C18_SetterEqualityRule ==
  fobs.setter.calls > 0 =>
    IF fobs.setter.proposed = fobs.setter.before
    THEN /\ fobs.setter.after = fobs.setter.before
         /\ fobs.setter.updates = 0
         /\ fobs.setter.renders = 0
    ELSE /\ fobs.setter.after = fobs.setter.proposed
         /\ fobs.setter.updates = 1
         /\ fobs.setter.renders = 1

C18_Witness ==
  /\ fobs.setter.calls >= 2
  /\ fobs.setter.proposed = fobs.setter.before
  /\ fobs.setter.before = Num(1)
  /\ fobs.renders = 2

\* the last render was a re-render: the slots existed before it
Rerendered == fobs.last.before # <<>>

\* C19: the function initializer of the seed slot is called once, by the
\* render that creates the slot, whatever value is stored (falsy ones
\* included); every later render returns the stored value.
C19_InitializerOnce ==
  /\ fobs.inits = IF fobs.renders >= 1 THEN 1 ELSE 0
  /\ Rerendered =>
       fobs.last.out[SeedSlot] = fobs.last.before[SeedSlot].state

C19_Witness ==
  /\ Rerendered
  /\ fobs.renders >= 3
  /\ ~Truthy(fc.props.seed)
  /\ ~Truthy(fc.hooks[SeedSlot].state)
  /\ fc.hooks[SeedSlot].state # fc.props.seed
  /\ fobs.inits = 1

\* the one-element dependency sequence stored in the slot differs from [d]
OneDepChanged(stored, d) == stored.null \/ stored.v # <<d>>

\* C20: on a re-render the memo slot calls its factory exactly when its
\* dependency [d] changed (always, when the dependencies are null) and
\* otherwise returns the cached value; useCallback returns the stored
\* function reference under the same rule.
C20_MemoRecomputesOnChange ==
  Rerendered =>
    LET before == fobs.last.before
        d == before[CountSlot].state
        memoChanged == ~fc.props.memoDeps \/ OneDepChanged(before[MemoSlotAt].deps, d)
        cbChanged == OneDepChanged(before[CallbackSlot].deps, d)
        called(slot) == \E k \in 1..Len(fobs.last.factories) :
                          fobs.last.factories[k] = slot
    IN /\ called(MemoSlotAt) <=> memoChanged
       /\ ~memoChanged => fobs.last.out[MemoSlotAt] = before[MemoSlotAt].value
       /\ called(CallbackSlot) <=> cbChanged
       /\ ~cbChanged => fobs.last.out[CallbackSlot] = before[CallbackSlot].value
       /\ cbChanged => fobs.last.out[CallbackSlot] = Fn(fobs.renders)

C20_Witness ==
  /\ Rerendered
  /\ fc.props.memoDeps
  /\ fobs.renders >= 3
  /\ fobs.last.out[MemoSlotAt] = Num(2)
  /\ fobs.last.out[CallbackSlot] = Fn(2)
  /\ fobs.last.before[CountSlot].state = Num(1)

(***************************************************************************)
(* Context claims                                                          *)
(***************************************************************************)
\* the Providers of the context among those around the reading component
ProvidersOf(id, enclosing) ==
  {k \in 1..Len(enclosing) : enclosing[k].contextId = id}

Innermost(id, enclosing) ==
  CHOOSE k \in ProvidersOf(id, enclosing) :
    \A j \in ProvidersOf(id, enclosing) : j <= k

\* C15: useContext called inside Providers of the context returns the value
\* of the innermost one.
C15_InnermostProviderValue ==
  ctx.read.called /\ ProvidersOf(ctx.read.contextId, ctx.read.enclosing) # {}
  => /\ ~ctx.read.result.threw
     /\ ctx.read.result.value =
          ctx.read.enclosing[Innermost(ctx.read.contextId,
                                       ctx.read.enclosing)].value

\* C16: useContext with no Provider of the context around the caller returns
\* the context's defaultValue, undefined included, and does not throw.
C16_NoProviderReturnsDefault ==
  ctx.read.called /\ ProvidersOf(ctx.read.contextId, ctx.read.enclosing) = {}
  => /\ ~ctx.read.result.threw
     /\ ctx.read.result.value = ctx.contexts[ctx.read.contextId].defaultValue

(***************************************************************************)
(* Type change                                                             *)
(***************************************************************************)
Replaced(ops) ==
  {ops[i].id : i \in {j \in 1..Len(ops) : ops[j].op = "replaceChild"}}

\* the last render() call diffed the children of the same root element,
\* starting from a host tree that materialized the remembered tree
ChildDiffDone ==
  /\ ~Absent(prevVNode) /\ prevVNode.type = lastArg.type
  /\ Len(prevContainer.kids) = 1 /\ Materializes(RootBefore, prevVNode)

\* the positions at which the old and the new child are the same child (same
\* key, or both without key) with different type tags
TypeChangedAt ==
  {i \in 1..Len(prevVNode.children) :
     /\ i <= Len(lastArg.children)
     /\ prevVNode.children[i].key = lastArg.children[i].key
     /\ prevVNode.children[i].type # lastArg.children[i].type}

\* C17: where the old and the new descriptor at a position differ in type,
\* the host node that materialized the old descriptor is replaced.
C17_TypeChangeReplacesOldNode ==
  ChildDiffDone =>
    \A i \in TypeChangedAt : RootBefore.kids[i].id \in Replaced(lastOps)

(***************************************************************************)
(* Ref slots                                                               *)
(***************************************************************************)
\* a step in which render() ran
RenderStep == fobs'.renders = fobs.renders + 1

\* a step that changed the current field of the ref container and called
\* no render
RefWritten ==
  /\ Len(fc.hooks) >= RefAt
  /\ fc'.hooks[RefAt].current # fc.hooks[RefAt].current

\* C21: useRef returns the same container on every render of the instance:
\* a render that finds the ref slot returns the container it found, with the
\* current it had, and leaves it as it was; the initial value is stored only
\* by the render that creates the slot; and a write to current calls no
\* render, queues no microtask and changes no host node.
C21_RefContainerStable ==
  [][/\ (RenderStep /\ Len(fc.hooks) >= RefAt) =>
          /\ fobs'.last.out[RefAt] = fc.hooks[RefAt].current
          /\ fc'.hooks[RefAt] = fc.hooks[RefAt]
     /\ (RenderStep /\ Len(fc.hooks) < RefAt) =>
          /\ fc'.hooks[RefAt] = RefSlot(Num(fobs'.renders))
          /\ fobs'.last.out[RefAt] = Num(fobs'.renders)
     /\ (~RenderStep /\ RefWritten) =>
          /\ fobs' = fobs
          /\ microtasks' = microtasks
          /\ container' = container
          /\ fc'.prevVNode = fc.prevVNode]_vars

\* a written value was handed back by a later render, not the initial value
\* of that render
C21_Witness ==
  /\ fc.props.component = "RefFunction"
  /\ fobs.renders >= 2
  /\ fobs.last.out = <<fc.hooks[1].state, Num(7)>>
  /\ fc.hooks[RefAt].current = Num(7)

(***************************************************************************)
(* core/vdom.js: createElement                                             *)
(***************************************************************************)
\* the renderer, the instances and the contexts, unused
InitIdle ==
  /\ container = EmptyContainer
  /\ nextId = EmptyContainer.id + 1
  /\ curVNode = NoVNode
  /\ renders = 0
  /\ lastArg = NoVNode
  /\ lastOps = <<>>
  /\ lastErr = FALSE
  /\ prevContainer = EmptyContainer
  /\ prevVNode = NoVNode
  /\ comps = <<>>
  /\ microtasks = <<>>
  /\ requests = 0
  /\ obs = <<>>
  /\ fc = <<>>
  /\ fobs = <<>>
  /\ ctx = <<>>

\* a value passed as a child: c is what kind of value it is (typeof, with
\* null, arrays and descriptors told apart), s the string, n the number, b
\* the boolean, items the elements of the array, node the descriptor
Child(c) ==
  [c |-> c, s |-> "", n |-> 0, b |-> FALSE, items |-> <<>>, node |-> NoVNode]
StrChild(s) == [Child("string") EXCEPT !.s = s]
NumChild(n) == [Child("number") EXCEPT !.n = n]
BoolChild(b) == [Child("boolean") EXCEPT !.b = b]
NullChild == Child("null")
UndefinedChild == Child("undefined")
Descriptor(vnode) == [Child("vnode") EXCEPT !.node = vnode]
ArrayChild(items) == [Child("array") EXCEPT !.items = items]

\* String(text)
String(child) ==
  IF child.c = "number" THEN ToStr(child.n)
  ELSE IF child.c = "boolean" THEN (IF child.b THEN "true" ELSE "false")
  ELSE child.s

\* children.flat(): the elements of the arrays among children take the place
\* of their array; arrays inside those arrays stay as they are
RECURSIVE Flat(_)
Flat(children) ==
  IF children = <<>> THEN <<>>
  ELSE (IF Head(children).c = "array" THEN Head(children).items
        ELSE <<Head(children)>>) \o Flat(Tail(children))

\* lines 22-26: the callback of map
WrapPrimitive(child) ==
  IF child.c \in {"string", "number", "boolean"}
  THEN Descriptor(createTextElement(String(child)))
  ELSE child

\* line 28: children.filter(child => child != null)
RECURSIVE DropNullish(_)
DropNullish(children) ==
  IF children = <<>> THEN <<>>
  ELSE (IF Head(children).c \in {"null", "undefined"} THEN <<>>
        ELSE <<Head(children)>>) \o DropNullish(Tail(children))

\* the props argument as the caller holds it: what the argument is (an
\* object, null, or nothing), whether the object has an own property key and
\* which, and its other properties
PropsObject(is, hasKey, key, bag) ==
  [is |-> is, hasKey |-> hasKey, key |-> key, bag |-> bag]

\* lines 18-29: createElement(type, props = {}, ...children); vnode is the
\* descriptor returned, props the caller's object after the call
createElement(type, props, children) ==
  LET key == IF props.is = "object" /\ props.hasKey THEN props.key ELSE NoKey
      after == IF props.is = "object" THEN [props EXCEPT !.hasKey = FALSE]
               ELSE props
      flat == Flat(children)
      mapped == [i \in 1..Len(flat) |-> WrapPrimitive(flat[i])]
  IN [vnode |-> [type |-> type,
                 props |-> IF after.is = "object" THEN after.bag ELSE NoProps,
                 propsHasKey |-> after.is = "object" /\ after.hasKey,
                 key |-> key,
                 children |-> DropNullish(mapped)],
      props |-> after]

\* the values callers pass as children
Leaves ==
  {StrChild("a"), NumChild(1), BoolChild(TRUE), NullChild, UndefinedChild,
   Descriptor(VNode("p", NoProps, NoKey, <<>>))}

\* items inside depth arrays, one inside the other
RECURSIVE Nested(_, _)
Nested(items, depth) ==
  IF depth = 0 THEN items ELSE <<ArrayChild(Nested(items, depth - 1))>>

ChildArrays ==
  {Nested(<<a>>, d)[1] : a \in Leaves, d \in 1..MaxNest}
  \cup {Nested(<<a, b>>, d)[1] : a \in Leaves, b \in {StrChild("b"), NullChild},
                                 d \in 1..MaxNest}

ChildLists ==
  {<<>>} \cup {<<c>> : c \in Leaves \cup ChildArrays}
  \cup {<<c, e>> : c \in ChildArrays, e \in {StrChild("z"), NumChild(2)}}

PropsObjects ==
  {PropsObject("null", FALSE, NoKey, NoProps),
   PropsObject("undefined", FALSE, NoKey, NoProps)}
  \cup {PropsObject("object", FALSE, NoKey, bag) : bag \in PropBags}
  \cup {PropsObject("object", TRUE, k, bag) :
          k \in {NumKey(1), StrKey("1"), StrKey("a")}, bag \in PropBags \cup {NoProps}}

\* a caller that builds its props object and its children once
InitElement ==
  /\ InitIdle
  /\ store = <<>>
  /\ rx = <<>>
  /\ hk = <<>>
  /\ \E props \in PropsObjects, children \in ChildLists :
       el = [given |-> props, props |-> props, children |-> children,
             made |-> <<>>]

\* the caller calls createElement('div', props, ...children) with the same
\* props object and the same children again
CreateElement ==
  /\ Len(el.made) < MaxCalls
  /\ \E r \in {createElement("div", el.props, el.children)} :
       el' = [el EXCEPT !.props = r.props, !.made = Append(@, r.vnode)]
  /\ UNCHANGED <<domVars, compVars, hookVars, store, rx, hk>>

NextElement == CreateElement

SpecElement == InitElement /\ [][NextElement]_vars

\* props?.key of the object the caller built
GivenKey ==
  IF el.given.is = "object" /\ el.given.hasKey THEN el.given.key ELSE NoKey

\* C22: createElement is pure: every descriptor built from the caller's props
\* object has the key the caller put in that object and props without a key,
\* and the caller's props object is after the calls as the caller built it.
C22_CreateElementPure ==
  /\ el.props = el.given
  /\ \A i \in 1..Len(el.made) :
       /\ el.made[i].key = GivenKey
       /\ ~el.made[i].propsHasKey

\* children with every array in them, at any depth, replaced by its elements
RECURSIVE DeepFlat(_)
DeepFlat(children) ==
  IF children = <<>> THEN <<>>
  ELSE (IF Head(children).c = "array" THEN DeepFlat(Head(children).items)
        ELSE <<Head(children)>>) \o DeepFlat(Tail(children))

\* the child sequence a descriptor is to have
Normalized(children) ==
  DropNullish([i \in 1..Len(DeepFlat(children)) |->
                 WrapPrimitive(DeepFlat(children)[i])])

\* C23: the children of the descriptor createElement returns are the values
\* passed, arrays at any depth replaced by their elements in order, strings,
\* numbers and booleans replaced by text descriptors of their string form,
\* null and undefined dropped; every one of them is a descriptor.
C23_ChildrenNormalized ==
  \A i \in 1..Len(el.made) :
    /\ el.made[i].children = Normalized(el.children)
    /\ \A j \in 1..Len(el.made[i].children) :
         el.made[i].children[j].c = "vnode"

(***************************************************************************)
(* The remembered tree and the host                                        *)
(***************************************************************************)
\* the node types, text values and child order of a host subtree
RECURSIVE Outline(_)
Outline(node) ==
  [tag |-> node.tag, text |-> node.text,
   kids |-> [i \in 1..Len(node.kids) |-> Outline(node.kids[i])]]

\* the host subtree under the container is the one vnode describes
Describes(vnode, host) ==
  /\ Len(host.kids) = 1
  /\ Outline(host.kids[1]) =
       Outline(createDOMElement(RState(Undef, 1, <<>>, FALSE), vnode).p)

\* C24: after every render() call, completed or failed, the tree remembered
\* in container._currentVNode describes the host subtree of the container:
\* same node types, same text values, same child order.
C24_RememberedTreeMatchesHost ==
  ~Absent(curVNode) => Describes(curVNode, container)

(***************************************************************************)
(* Style props                                                             *)
(***************************************************************************)
\* the last render() call was handed the remembered tree with its style prop
\* changed from {color: 'red'} to {color: 'blue', fontWeight: 'bold'} and
\* nothing else changed
StyleChangeDone ==
  /\ ~Absent(prevVNode) /\ prevVNode.type = lastArg.type
  /\ prevVNode.children = lastArg.children
  /\ DOMAIN prevVNode.props = DOMAIN lastArg.props
  /\ "style" \in DOMAIN lastArg.props
  /\ prevVNode.props["style"] = Red /\ lastArg.props["style"] = BlueBold
  /\ \A n \in DOMAIN lastArg.props \ {"style"} :
       prevVNode.props[n] = lastArg.props[n]
  /\ Len(prevContainer.kids) = 1 /\ Materializes(RootBefore, prevVNode)

\* C25: changing the style prop from {color: 'red'} to {color: 'blue',
\* fontWeight: 'bold'} writes the style keys color and fontWeight of the host
\* node once each and nothing else: the host calls of the render are these
\* two writes, and the node differs from what it was in these two style keys
\* only.
C25_StyleDiffPrecise ==
  StyleChangeDone
  => /\ ~lastErr
     /\ lastOps = <<Op("setStyle", RootBefore.id, "color"),
                    Op("setStyle", RootBefore.id, "fontWeight")>>
     /\ RootAfter = [RootBefore EXCEPT !.style = BlueBold.st]

C25_Witness ==
  /\ StyleChangeDone
  /\ RootBefore.style = Red.st
  /\ RootAfter.style = BlueBold.st
  /\ RootAfter.attrs["id"] = "x"

(***************************************************************************)
(* Key matching                                                            *)
(***************************************************************************)
\* the new children whose key is the key of no old child
Unmatched ==
  {i \in 1..Len(lastArg.children) :
     \A j \in 1..Len(prevVNode.children) :
       prevVNode.children[j].key # lastArg.children[i].key}

ElementsCreated ==
  {k \in 1..Len(lastOps) : lastOps[k].op = "createElement"}

\* C26: the keyed reconcile matches an old and a new child only when their
\* keys are the same value: a new child whose key equals the key of no old
\* child (the number 1 against the string '1' included) is not matched, so a
\* host element is created for it.
C26_KeysMatchByValue ==
  KeyedDiffDone
  => Cardinality(ElementsCreated) >= Cardinality(Unmatched)

\* some key occurs twice in the sibling list
HasDuplicateKey(children) ==
  \E i, j \in 1..Len(children) :
    /\ i # j
    /\ HasKey(children[i]) /\ HasKey(children[j])
    /\ children[i].key = children[j].key

\* the last render() call reconciled sibling lists of which one gives a key
\* twice
DuplicateKeysReconciled ==
  /\ ~Absent(prevVNode) /\ prevVNode.type = lastArg.type
  /\ HasDuplicateKey(prevVNode.children) \/ HasDuplicateKey(lastArg.children)

\* C27: a sibling list that gives one non-null key to two children is
\* reported by the reconciler: the render() call that reconciles it fails.
C27_DuplicateKeysFlagged ==
  DuplicateKeysReconciled => lastErr

(***************************************************************************)
(* state/store.js: createStore                                             *)
(***************************************************************************)
\* a store state: ref is the identity of the value (0 for a primitive), kind
\* its typeof, count its count property (-1 for NaN)
StateObject(ref, count) == [ref |-> ref, kind |-> "object", count |-> count]
StateString == [ref |-> 0, kind |-> "string", count |-> 0]

\* the reducers option the store is created with:
\*   { increment: state => ({ count: state.count + 1 }), keep: state => state }
OwnReducers == {"increment", "keep"}

\* the function-valued properties a plain object inherits from
\* Object.prototype, as far as the callers' action types name them
ObjectPrototype == {"toString", "hasOwnProperty", "constructor"}

\* lines 45 and 47: typeof reducers[type] === 'function'
HasReducerFunction(type) == type \in OwnReducers \cup ObjectPrototype

\* line 49: reducer(state, action.payload), called without a receiver; ref is
\* the identity a new object would get
CallReducer(type, state, ref) ==
  IF type = "increment"
  THEN [threw |-> FALSE,
        value |-> StateObject(ref, IF state.kind = "object" /\ state.count >= 0
                                   THEN state.count + 1
                                   ELSE -1)]     \* undefined + 1 is NaN
  ELSE IF type = "keep" THEN [threw |-> FALSE, value |-> state]
  ELSE IF type = "toString"       \* "[object Undefined]"
  THEN [threw |-> FALSE, value |-> StateString]
  ELSE IF type = "constructor"    \* Object(state)
  THEN [threw |-> FALSE,
        value |-> IF state.kind = "object" THEN state
                  ELSE StateObject(ref, 0)]
  ELSE [threw |-> TRUE, value |-> state]   \* hasOwnProperty: TypeError

\* a value handed to dispatch: is says what it is, hasType and type give its
\* type property ("" is the empty string)
Action(is, hasType, type) == [is |-> is, hasType |-> hasType, type |-> type]
NoAction == Action("", FALSE, "")

\* line 40: !action || typeof action !== 'object' || !action.type
Invalid(action) ==
  \/ action.is # "object"
  \/ ~action.hasType
  \/ action.type = ""

InvalidActions ==
  {Action("undefined", FALSE, ""), Action("null", FALSE, ""),
   Action("number", FALSE, ""), Action("string", FALSE, ""),
   Action("function", TRUE, "increment"),
   Action("object", FALSE, ""), Action("object", TRUE, "")}

ActionTypes == OwnReducers \cup ObjectPrototype \cup {"unknown", "@@INIT"}

Actions == InvalidActions \cup {Action("object", TRUE, t) : t \in ActionTypes}

\* the listeners callers subscribe: two functions and a value that is none
Listeners == {Fn(1), Fn(2)}
ListenerArgs == Listeners \cup {Num(0)}

\* what the last dispatch call was seen to do
DispatchSeen(action, before, threw, notified, warned) ==
  [action |-> action, before |-> before, threw |-> threw,
   notified |-> notified, warned |-> warned]

\* lines 12-111: the store createStore({ initialState: { count: 0 },
\* reducers }) returns, after its own dispatch({ type: '@@INIT' })
createStore ==
  [state |-> StateObject(1, 0),
   listeners |-> <<>>,
   nextRef |-> 2,
   dispatches |-> 0,
   last |-> DispatchSeen(Action("object", TRUE, "@@INIT"), StateObject(1, 0),
                         FALSE, <<>>, TRUE)]

InitStore ==
  /\ InitIdle
  /\ el = <<>>
  /\ rx = <<>>
  /\ hk = <<>>
  /\ store = createStore

\* lines 25-27: listeners.forEach(listener => listener(state))
notifyListeners(listeners, state) ==
  [i \in 1..Len(listeners) |-> [listener |-> listeners[i], state |-> state]]

\* lines 39-61: dispatch(action)
Dispatch(action) ==
  /\ store.dispatches < MaxDispatches
  /\ IF Invalid(action) \/ ~HasReducerFunction(action.type)
     THEN store' = [store EXCEPT
            !.dispatches = @ + 1,
            !.last = DispatchSeen(action, store.state, FALSE, <<>>, TRUE)]
     ELSE \E r \in {CallReducer(action.type, store.state, store.nextRef)} :
          IF r.threw \/ r.value = store.state
          THEN store' = [store EXCEPT
                 !.dispatches = @ + 1,
                 !.last = DispatchSeen(action, store.state, r.threw, <<>>,
                                       FALSE)]
          ELSE store' = [store EXCEPT
                 !.dispatches = @ + 1,
                 !.state = r.value,
                 !.nextRef = @ + 1,
                 !.last = DispatchSeen(action, store.state, FALSE,
                            notifyListeners(store.listeners, r.value), FALSE)]
  /\ UNCHANGED <<domVars, compVars, hookVars, el, rx, hk>>

\* lines 66-78: subscribe(listener)
Subscribe(listener) ==
  /\ listener.t = "function"
  /\ \A i \in 1..Len(store.listeners) : store.listeners[i] # listener
  /\ store' = [store EXCEPT !.listeners = Append(@, listener)]
  /\ UNCHANGED <<domVars, compVars, hookVars, el, rx, hk>>

\* lines 75-77: the unsubscribe function subscribe returned
Unsubscribe(listener) ==
  /\ \E i \in 1..Len(store.listeners) : store.listeners[i] = listener
  /\ store' = [store EXCEPT
       !.listeners = SelectSeq(@, LAMBDA l : l # listener)]
  /\ UNCHANGED <<domVars, compVars, hookVars, el, rx, hk>>

NextStore ==
  \/ \E action \in Actions : Dispatch(action)
  \/ \E listener \in ListenerArgs : Subscribe(listener)
  \/ \E listener \in Listeners : Unsubscribe(listener)

SpecStore == InitStore /\ [][NextStore]_vars

\* the last dispatch was handed no action object with a type, or a type for
\* which the store was given no reducer
Rejected ==
  \/ Invalid(store.last.action)
  \/ store.last.action.type \notin OwnReducers

\* C28: dispatch of a value that is not an object, of null, of an object
\* without a type, or of an action whose type has no reducer returns without
\* throwing, leaves the store state the value it was and calls no listener.
C28_InvalidDispatchIsNoOp ==
  Rejected
  => /\ ~store.last.threw
     /\ store.state = store.last.before
     /\ store.last.notified = <<>>

(***************************************************************************)
(* core/reactivity.js: reactive, watchEffect, computed                     *)
(***************************************************************************)
\* The callers' program:
\*   const state = reactive({ a: 0, n: { x: 0 } });
\*   watchEffect(() => { seenA = state.a });               \* "E1"
\*   watchEffect(() => { seenX = state.n.x });             \* "E2"
\*   const sum = computed(() => state.a + state.n.x);      \* "C"
\*   state.a = v;  state.n = { x: v };  state.n.x = v;
Computations == {"E1", "E2", "C"}

\* the properties a computation reads in a run, as paths from state
Reads(e) ==
  IF e = "E1" THEN {"a"} ELSE IF e = "E2" THEN {"n", "n.x"}
  ELSE {"a", "n", "n.x"}

Members(seq) == {seq[i] : i \in 1..Len(seq)}

\* lines 24-29: dependencies.get(key).add(currentEffect); a Set keeps its
\* members in insertion order
Track(dependents, currentEffect) ==
  IF currentEffect \in Members(dependents) THEN dependents
  ELSE Append(dependents, currentEffect)

\* the module and the objects of the callers' program: target is the raw
\* object; deps the dependencies map of the proxy `state`, per key; proxies
\* the dependencies of key x of every proxy that reactive(value) made for the
\* nested object (line 32), in order of creation; value the value property
\* of the computed cell.
NewReactive ==
  [target |-> [a |-> 0, nx |-> 0],
   deps |-> [a |-> <<>>, n |-> <<>>],
   proxies |-> <<>>,
   created |-> {},
   seen |-> [e \in Computations |-> 0],
   runs |-> [e \in Computations |-> 0],
   value |-> 0,
   writes |-> 0,
   last |-> [path |-> "", readers |-> {}, reran |-> <<>>]]

\* lines 22-33, get(target, 'a'), while currentEffect is e
GetA(R, e) == [R EXCEPT !.deps.a = Track(@, e)]

\* lines 22-33, get(target, 'n') and then get of 'x' on the proxy it returns,
\* while currentEffect is e: reactive(value) makes a new proxy with a new
\* dependencies map, and the read of x is tracked in that map
GetNX(R, e) ==
  [R EXCEPT !.deps.n = Track(@, e),
            !.proxies = Append(@, Track(<<>>, e))]

\* lines 46-53: execute() of the computation e; the write of the cell's
\* value by "C" notifies the dependents of that cell, of which there are none
execute(R, e) ==
  LET read == IF e = "E1" THEN GetA(R, e)
              ELSE IF e = "E2" THEN GetNX(R, e)
              ELSE GetNX(GetA(R, e), e)
  IN [read EXCEPT
        !.runs[e] = @ + 1,
        !.seen[e] = IF e = "E1" THEN R.target.a
                    ELSE IF e = "E2" THEN R.target.nx ELSE @,
        !.value = IF e = "C" THEN R.target.a + R.target.nx ELSE @,
        !.last.reran = Append(@, e)]

\* lines 15-19: notify(key): dependencies.get(key).forEach(sub => sub())
RECURSIVE notify(_, _, _)
notify(R, dependents, i) ==
  IF i > Len(dependents) THEN R
  ELSE notify(execute(R, dependents[i]), dependents, i + 1)

InitReactive ==
  /\ InitIdle
  /\ el = <<>>
  /\ store = <<>>
  /\ rx = NewReactive
  /\ hk = <<>>

\* lines 45-61 and 66-72: watchEffect(effect), or computed(getter) for "C":
\* the computation is run once
WatchEffect(e) ==
  /\ e \notin rx.created
  /\ rx' = [execute([rx EXCEPT !.last = [path |-> "", readers |-> {},
                                          reran |-> <<>>]], e)
              EXCEPT !.created = @ \cup {e}]
  /\ UNCHANGED <<domVars, compVars, hookVars, el, store, hk>>

\* the write about to be made: its path and the computations that read the
\* path in their last run
Writing(path) ==
  [path |-> path, readers |-> {e \in rx.created : path \in Reads(e)},
   reran |-> <<>>]

\* lines 34-38: state.a = v
WriteA(v) ==
  /\ rx.writes < MaxWrites
  /\ rx' = notify([rx EXCEPT !.target.a = v, !.writes = @ + 1,
                             !.last = Writing("a")],
                  rx.deps.a, 1)
  /\ UNCHANGED <<domVars, compVars, hookVars, el, store, hk>>

\* lines 34-38: state.n = { x: v }
WriteN(v) ==
  /\ rx.writes < MaxWrites
  /\ rx' = notify([rx EXCEPT !.target.nx = v, !.writes = @ + 1,
                             !.last = Writing("n")],
                  rx.deps.n, 1)
  /\ UNCHANGED <<domVars, compVars, hookVars, el, store, hk>>

\* lines 22-38: state.n.x = v: the get of n returns a new proxy, on which the
\* set of x notifies the dependents of that proxy's own map
WriteNX(v) ==
  /\ rx.writes < MaxWrites
  /\ rx' = notify([rx EXCEPT !.target.nx = v, !.writes = @ + 1,
                             !.proxies = Append(@, <<>>),
                             !.last = Writing("n.x")],
                  <<>>, 1)
  /\ UNCHANGED <<domVars, compVars, hookVars, el, store, hk>>

Written01 == {0, 1}

NextReactive ==
  \/ \E e \in Computations : WatchEffect(e)
  \/ \E v \in Written01 : WriteA(v)
  \/ \E v \in Written01 : WriteN(v)
  \/ \E v \in Written01 : WriteNX(v)

SpecReactive == InitReactive /\ [][NextReactive]_vars

\* C29: every property of the reactive object that a tracked computation read
\* in its last run has the computation as a dependent; every write to a
\* property, top-level or of the nested object, re-runs the computations
\* that read it; and the computed cell holds what its getter returns.
C29_WritesRerunDependents ==
  /\ \A e \in rx.created :
       /\ "a" \in Reads(e) => e \in Members(rx.deps.a)
       /\ "n" \in Reads(e) => e \in Members(rx.deps.n)
  /\ rx.last.readers \subseteq Members(rx.last.reran)
  /\ "C" \in rx.created => rx.value = rx.target.a + rx.target.nx

(***************************************************************************)
(* Scheduled updates are carried out                                       *)
(***************************************************************************)
\* an update of the mounted instance i is scheduled
UpdateScheduled(i) == comps[i].isMounted /\ comps[i].renderScheduled

\* the update step of i has been executed and nothing is left to do
UpdateDone(i) ==
  /\ obs[i].flush.ran /\ obs[i].flush.mounted
  /\ comps[i].pendingState = NoState
  /\ ~comps[i].renderScheduled
  /\ obs[i].batch = <<>>

\* C30: every update request on a mounted instance is followed by an
\* execution of the update step, after which _pendingState is null and
\* _renderScheduled is false; and the step that runs takes every request
\* made since the flush was queued: it commits the state they merge to.
C30_ScheduledUpdateRuns ==
  /\ \A i \in CompIds : UpdateScheduled(i) ~> UpdateDone(i)
  /\ [][\A i \in CompIds :
          (UpdateScheduled(i) /\ ~comps'[i].renderScheduled)
          => /\ obs'[i].flush.requests = obs[i].batch
             /\ comps'[i].state = comps[i].pendingState]_vars

\* an update step ran for three requests, two of them made while the flush
\* was queued
C30_Witness ==
  /\ UpdateDone("A")
  /\ Len(obs["A"].flush.requests) = 3
  /\ comps["A"].state = obs["A"].flush.after

(***************************************************************************)
(* Order of flushes and effects                                            *)
(***************************************************************************)
\* the flush of instance i runs in this step
FlushRuns(i) == comps[i].renderScheduled /\ ~comps'[i].renderScheduled

\* an effect body runs in this step
EffectRuns == Len(fobs'.bodyRuns) = Len(fobs.bodyRuns) + 1

\* the deferred effects of one render (they close over the same state) wait
\* in the order of their hook calls
QueuedInDeclarationOrder ==
  \A k \in 1..(Len(microtasks) - 1) :
    (/\ microtasks[k].kind = "effect" /\ microtasks[k + 1].kind = "effect"
     /\ microtasks[k].seen = microtasks[k + 1].seen)
    => microtasks[k].slot < microtasks[k + 1].slot

\* C31: the flushes of distinct instances run in the order of the instances'
\* first requests, one flush per instance; the deferred effects of a render
\* run after the host mutation of that render, in the order of their hook
\* calls.
C31_FlushOrder ==
  /\ [](/\ \A i \in CompIds : QueuedFlushes(i) <= 1
        /\ QueuedInDeclarationOrder)
  /\ [][/\ \A i \in CompIds :
             FlushRuns(i)
             => \A j \in CompIds \ {i} :
                  comps[j].renderScheduled => obs[i].firstAt < obs[j].firstAt
        /\ EffectRuns
           => /\ fobs.commits = fobs.renders
              /\ fobs'.bodyRuns = Append(fobs.bodyRuns, Head(microtasks).slot)
              /\ \A k \in 2..Len(microtasks) :
                   (microtasks[k].kind = "effect"
                    /\ microtasks[k].seen = Head(microtasks).seen
                    /\ \A m \in 2..k : microtasks[m].kind = "effect"
                                       /\ microtasks[m].seen = Head(microtasks).seen)
                   => microtasks[k].slot > Head(microtasks).slot]_vars

\* both instances were asked for an update in one turn, B first, while the
\* two effects of the mount of the hook-based instance are still to run
C31_Witness ==
  /\ Len(microtasks) = 4
  /\ microtasks[1].kind = "effect" /\ microtasks[2].kind = "effect"
  /\ microtasks[3] = FlushTask("B") /\ microtasks[4] = FlushTask("A")
  /\ comps["A"].isMounted /\ comps["B"].isMounted
  /\ obs["B"].firstAt < obs["A"].firstAt

(***************************************************************************)
(* Keyed removal                                                           *)
(***************************************************************************)
\* the host nodes of the old children whose key no new child carries
StaleNodes ==
  {RootBefore.kids[j].id :
     j \in {m \in 1..Len(prevVNode.children) :
              \A i \in 1..Len(lastArg.children) :
                lastArg.children[i].key # prevVNode.children[m].key}}

\* C32: the keyed reconcile removes exactly the host nodes that materialized
\* the old keyed children whose key is absent from the new list, whatever the
\* earlier steps of the pass moved or inserted.
C32_RemovesExactlyStale ==
  KeyedDiffDone => ~lastErr /\ Removed(lastOps) = StaleNodes

(***************************************************************************)
(* Event listeners                                                         *)
(***************************************************************************)
\* the listeners a prop bag asks for: one per function-valued on<Event> prop,
\* under the lowercase event type
ListenersOf(props) ==
  {[type |-> EventType(n), fn |-> props[n].r] :
     n \in {m \in DOMAIN props : StartsWithOn(m) /\ props[m].k = "function"}}

\* C33: after every completed render, the event listeners attached to the
\* root host node are those of the latest prop bag of the root descriptor:
\* a changed handler's old function and a dropped handler are detached.
C33_ListenersFollowProps ==
  (~Absent(curVNode) /\ ~lastErr)
  => RootAfter.listeners = ListenersOf(curVNode.props)

(***************************************************************************)
(* The host reference of a mounted Component                               *)
(***************************************************************************)
\* the instances whose last flush rendered and patched the host without an
\* error and whose node no other mount has cleared away since
Updated == {i \in CompIds : /\ comps[i].isMounted
                            /\ obs[i].flush.ran
                            /\ obs[i].flush.didUpdate
                            /\ ~obs[i].detached}

\* C34: after every update of a mounted Component, also one whose render
\* changes the type of the root descriptor, the instance's _domNode is a host
\* node attached in the parent, so that a following update can run
C34_HostReferenceValid == Updated \subseteq AttachedIn(container)

(***************************************************************************)
(* Cleanup functions                                                       *)
(***************************************************************************)
\* C35: each cleanup function returned by an effect body is invoked at most
\* once, under every interleaving of renders and deferred effect executions:
\* no function appears twice among the cleanup calls made.
C35_CleanupAtMostOnce ==
  \A j, k \in 1..Len(fobs.cleanupCalls) :
    fobs.cleanupCalls[j].fn = fobs.cleanupCalls[k].fn => j = k

(***************************************************************************)
(* Factory calls of useMemo                                                *)
(***************************************************************************)
\* C36: a single useMemo call invokes its factory at most once, on the first
\* render as well as on later renders: no slot appears twice among the
\* factory calls of the last render.
C36_FactoryAtMostOncePerCall ==
  \A j, k \in 1..Len(fobs.last.factories) :
    fobs.last.factories[j] = fobs.last.factories[k] => j = k

(***************************************************************************)
(* Dependency comparison                                                   *)
(***************************************************************************)
\* the dependency sequence the last render handed to its hooks
LastDeps == DepsFor(fc.props, fc.hooks[1].state)

\* the last render treated the slot as changed: it called the memo factory,
\* or deferred the effect
TreatedAsChanged(slot) ==
  \/ \E k \in 1..Len(fobs.last.factories) : fobs.last.factories[k] = slot
  \/ \E k \in 1..Len(fobs.last.queued) : fobs.last.queued[k] = slot

\* C37: an effect or memo slot is treated as changed whenever the new
\* dependency sequence differs from the stored one at any position or in
\* length, a new sequence that is a strict prefix of the stored one included.
C37_EveryDifferenceDetected ==
  Rerendered =>
    \A slot \in {DepsMemoAt, DepsEffectAt} :
      LET stored == fobs.last.before[slot].deps
      IN (~stored.null /\ stored.v # LastDeps.v) => TreatedAsChanged(slot)

(***************************************************************************)
(* Hook-based instances that share currentComponent and currentHookIndex   *)
(***************************************************************************)
HookInsts == {"F1", "F2"}

\* the component function both instances are made with:
\*   const [n, setN] = useState(props.seed);
\*   const ref = useRef(props.seed);
\*   return createElement('div', null, n)
CounterProps(seed) == [component |-> "Counter", seed |-> seed, memoDeps |-> TRUE]
SeedOf(i) == IF i = "F1" THEN Num(0) ELSE Num(5)

\* what a render in progress sees of hooks.js: the two module-level
\* variables and the instances; calls lists the slots its hook calls
\* touched, out what they returned
Globals(current, index, insts) ==
  [current |-> current, index |-> index, insts |-> insts, calls |-> <<>>,
   out |-> <<>>]

\* prepareHooksForRender that keeps the component of the first render
prepareHooksForRender_KeepsComponent(G, component) ==
  [G EXCEPT !.current = IF @ = "none" THEN component ELSE @, !.index = 0]

\* hooks.js lines 10-13
prepareHooksForRender(G, component) ==
  [G EXCEPT !.current = component, !.index = 0]

\* the first two lines of every hook: component = currentComponent.current
\* and hookIndex = currentHookIndex++ choose the slots the hook works on
EnterHook(G) ==
  [Rendering(G.insts[G.current].hooks) EXCEPT !.index = G.index]

\* the hook returns: its slots are those of the component it read, and the
\* setter of useState closes over that component and its slot
LeaveHook(G, H) ==
  [G EXCEPT !.index = H.index,
            !.insts[G.current].hooks = H.hooks,
            !.calls = Append(@, [inst |-> G.current, slot |-> H.index]),
            !.out = Append(@, [value |-> H.out[Len(H.out)],
                               comp |-> G.current, slot |-> H.index])]

Counter(G0, props) ==
  LET G1 == LeaveHook(G0, useState(EnterHook(G0), Plain(props.seed)))
  IN LeaveHook(G1, useRef(EnterHook(G1), props.seed))

\* component.js lines 159-162: instance.render()
RenderInstance(current, index, insts, i) ==
  Counter(prepareHooksForRender(Globals(current, index, insts), i),
          insts[i].props)

\* the descriptor the component function returned
CounterView(G) ==
  VNode("div", NoProps, NoKey, <<createTextElement(ToStr(G.out[1].value.v))>>)

\* the setter a caller holds: the component and slot it closes over
NoSetter == [comp |-> "none", slot |-> 0]
SetterOf(G) == [comp |-> G.out[1].comp, slot |-> G.out[1].slot]

\* the last call made: the instance it was made on (from), the instance that
\* rendered (of), the slots the hook calls touched, what they returned, and
\* the slots of all instances before the render
HookRender(from, of, G, before) ==
  [from |-> from, of |-> of, calls |-> G.calls, out |-> G.out,
   before |-> before]

\* the two instances FunctionalComponent(props) returns
NewInstances ==
  [i \in HookInsts |-> FunctionalComponent(CounterProps(SeedOf(i)))]

InitIso ==
  /\ container = EmptyContainer
  /\ nextId = EmptyContainer.id + 1
  /\ comps = [i \in CompIds |-> NewComponent("inherited")]
  /\ microtasks = <<>>
  /\ requests = 0
  /\ obs = [i \in CompIds |-> NewObs]
  /\ fc = <<>>
  /\ fobs = <<>>
  /\ ctx = <<>>
  /\ el = <<>>
  /\ store = <<>>
  /\ rx = <<>>
  /\ hk = [current |-> "none", index |-> 0,
           insts |-> NewInstances,
           setters |-> [i \in HookInsts |-> NoSetter],
           renders |-> [i \in HookInsts |-> 0],
           last |-> HookRender("none", "none", Globals("none", 0, <<>>),
                               NewInstances)]
  /\ curVNode = NoVNode
  /\ renders = 0
  /\ lastArg = NoVNode
  /\ lastOps = <<>>
  /\ lastErr = FALSE
  /\ prevContainer = EmptyContainer
  /\ prevVNode = NoVNode

\* component.js lines 163-170: instance.mount(container)
MountHooked(i) ==
  /\ ~hk.insts[i].hasContainer
  /\ \E G \in {RenderInstance(hk.current, hk.index, hk.insts, i)} :
     \E c \in {createDOMElement(RState(Undef, nextId, <<>>, FALSE),
                                CounterView(G))} :
       /\ hk' = [hk EXCEPT
            !.current = G.current,
            !.index = G.index,
            !.insts = [G.insts EXCEPT ![i].hasContainer = TRUE,
                                      ![i].prevVNode = CounterView(G)],
            !.setters[i] = SetterOf(G),
            !.renders[i] = @ + 1,
            !.last = HookRender("none", i, G, hk.insts)]
       /\ container' = AppendChild(container, c.p)
       /\ nextId' = c.nid
  /\ UNCHANGED <<compVars, hookVars, el, store, rx>>
  /\ UnchangedRenderer

\* hooks.js lines 33-42 with component.js lines 152-158: the setter that the
\* last render of instance i handed out is called
CallSetter(i, arg) ==
  /\ requests < MaxRequests
  /\ hk.setters[i] # NoSetter
  /\ requests' = requests + 1
  /\ LET component == hk.setters[i].comp
         slot == hk.setters[i].slot
         current == hk.insts[component].hooks[slot].state
         nextState == NextHookState(arg, current)
         stored == [hk.insts EXCEPT ![component].hooks[slot].state = nextState]
     IN
     IF ~StateDiffers(nextState, current)
     THEN /\ hk' = [hk EXCEPT !.last = HookRender(i, "none",
                                  Globals(hk.current, hk.index, <<>>), hk.insts)]
          /\ UNCHANGED <<container, nextId>>
     ELSE IF ~hk.insts[component].hasContainer
     THEN /\ hk' = [hk EXCEPT !.insts = stored,
                              !.last = HookRender(i, "none",
                                  Globals(hk.current, hk.index, <<>>), stored)]
          /\ UNCHANGED <<container, nextId>>
     ELSE \E G \in {RenderInstance(hk.current, hk.index, stored, component)} :
          \E u \in {updateDOM(RState(container, nextId, <<>>, FALSE),
                              hk.insts[component].prevVNode, CounterView(G), 0)} :
            /\ hk' = [hk EXCEPT
                 !.current = G.current,
                 !.index = G.index,
                 !.insts = [G.insts EXCEPT ![component].prevVNode =
                              IF u.err THEN @ ELSE CounterView(G)],
                 !.setters[component] = SetterOf(G),
                 !.renders[component] = @ + 1,
                 !.last = HookRender(i, component, G, stored)]
            /\ container' = u.p
            /\ nextId' = u.nid
  /\ UNCHANGED <<comps, microtasks, obs, hookVars, el, store, rx>>
  /\ UnchangedRenderer

NextIso ==
  \/ \E i \in HookInsts : MountHooked(i)
  \/ \E i \in HookInsts, arg \in SetterArgs : CallSetter(i, arg)

SpecIso == InitIso /\ [][NextIso]_vars

\* C38: over any sequence of non-nested renders of distinct hook-based
\* instances, the hook calls of a render of instance A read and write only
\* A's slots, the i-th hook call is served slot i of A, and a setter obtained
\* from A requests an update only on A.
C38_HookSlotIsolation ==
  LET A == hk.last.of IN
  /\ \A k \in 1..Len(hk.last.calls) :
       hk.last.calls[k] = [inst |-> A, slot |-> k]
  /\ A # "none" =>
       /\ hk.last.out[1].value = hk.insts[A].hooks[1].state
       /\ hk.last.out[2].value = hk.insts[A].hooks[2].current
  /\ \A j \in HookInsts \ {A} : hk.insts[j].hooks = hk.last.before[j].hooks
  /\ \A i \in HookInsts : hk.setters[i] \in {NoSetter, [comp |-> i, slot |-> 1]}
  /\ (hk.last.from # "none" /\ A # "none") => A = hk.last.from

\* the setter of F2 made F2 render after F1 had rendered last, with both
\* instances mounted and holding different states
C38_Witness ==
  /\ hk.last.from = "F2"
  /\ hk.last.of = "F2"
  /\ hk.renders["F1"] >= 2
  /\ hk.insts["F1"].hooks[1].state = Num(1)
  /\ hk.insts["F2"].hooks[1].state = Num(6)
  /\ Len(hk.last.calls) = 2
====
